---------------------------- MODULE Spec2Model ----------------------------
(***************************************************************************)
(* z3c.davapp.zopelocking: WebDAV lock manager over the zope.locking token *)
(* utility, with indirect tokens for depth-infinity locks.                 *)
(*                                                                         *)
(* Objects are modelled by identity: a token is an index into the table    *)
(* `tokens`; a resource is a number; the token utility's `_locks` tree is   *)
(* the function `locks`.  Operations that can raise are written in store-  *)
(* passing style: they take and return a store S = [tokens, locks, exc],  *)
(* where exc names the exception that escaped (NoExc when none).          *)
(***************************************************************************)
EXTENDS Integers, Sequences, FiniteSets, TLC

---------------------------------------------------------------------------
(* Bounds of the model *)

MaxTime == 2
MaxTokens == 2
MaxList == 2

---------------------------------------------------------------------------
(* The universe: resources, principals, request inputs *)

None == 0

Folders == {1, 2}
Files == {3}
Resources == Folders \cup Files

Principals == {"alice", "bob"}
Durations == {1, 2}
Handles == {1, 2, 3}
Scopes == {"exclusive", "shared", "notexclusive"}
Depths == {"0", "infinity"}
BROWSER_METHODS == {"GET", "HEAD", "POST"}
\* the requests a container modification comes with: the method, and what
\* z3c.dav.ifvalidator.matchesIfHeader answers for the object and for the
\* new parent
Requests ==
    {[method |-> "POST", ifObject |-> FALSE, ifParent |-> FALSE],
     [method |-> "PUT", ifObject |-> TRUE, ifParent |-> TRUE],
     [method |-> "PUT", ifObject |-> TRUE, ifParent |-> FALSE],
     [method |-> "PUT", ifObject |-> FALSE, ifParent |-> TRUE]}

NoExc == "none"

VARIABLES
    now,        \* zope.locking.utils.now()
    parent,     \* __parent__ of every resource (None: not contained)
    tokens,     \* every token object created so far, by identity
    locks,      \* TokenUtility._locks: resource key -> token (None: no entry)
    pending,    \* a lock request stopped inside maybeRecursivelyLockIndirectly,
                \* after utility.get(subob) and before utility.register
    ending,     \* a call of end() stopped inside removeEndedTokens, between
                \* two rounds of its loop over the items of the index
    keyrefs,    \* the resources by DemoKeyReference._id, the order in which
                \* they were first adapted to IKeyReference
    dictorder   \* the order in which DemoFolder.data yields the members
                \* that are together in one folder (set by their names)

vars == <<now, parent, tokens, locks, pending, ending, keyrefs, dictorder>>

---------------------------------------------------------------------------
(* Dictionaries with a varying set of keys *)

DictDel(d, k) == [x \in (DOMAIN d) \ {k} |-> d[x]]
DictSet(d, k, v) == [x \in (DOMAIN d) \cup {k} |-> IF x = k THEN v ELSE d[x]]
EmptyDict == [x \in {} |-> None]

\* the members of the set s in the order of the sequence order
RECURSIVE InOrder(_, _)
InOrder(order, s) ==
    IF order = <<>> THEN <<>>
    ELSE (IF Head(order) \in s THEN <<Head(order)>> ELSE <<>>)
             \o InOrder(Tail(order), s)

\* list(index.items()): the keys of an index are key references, and the
\* tree holds them in the order of DemoKeyReference.__cmp__, by _id
SetToSeq(s) == InOrder(keyrefs, s)

\* list.remove(x): drop the first occurrence
RECURSIVE ListRemove(_, _)
ListRemove(l, x) ==
    IF l = <<>> THEN <<>>
    ELSE IF Head(l) = x THEN Tail(l)
    ELSE <<Head(l)>> \o ListRemove(Tail(l), x)

ListSet(l) == {l[i] : i \in DOMAIN l}

---------------------------------------------------------------------------
(* The container tree *)

\* DemoFolder.values(): the members of a container, in the order of the
\* folder's dict
values(context) == InOrder(dictorder, {r \in Resources : parent[r] = context})

RECURSIVE Ancestors(_, _)
Ancestors(par, r) ==
    IF par[r] = None THEN {} ELSE {par[r]} \cup Ancestors(par, par[r])

Descendants(par, c) == {r \in Resources : c \in Ancestors(par, r)}

---------------------------------------------------------------------------
(* Token objects *)

NoAnnots == [has |-> FALSE, haspids |-> FALSE, principal_ids |-> <<>>,
             handles |-> EmptyDict]

\* zope.locking.tokens.ExclusiveLock / SharedLock before registration
RootToken(kind, target, pids, duration) ==
    [kind |-> kind, context |-> target, roottoken |-> None, utility |-> FALSE,
     principal_ids |-> pids, started |-> None, duration |-> duration,
     expiration |-> None, ended |-> None, webdav |-> NoAnnots,
     index |-> EmptyDict]

\* IndirectToken.__init__
IndirectToken(target, token) ==
    [kind |-> "indirect", context |-> target, roottoken |-> token,
     utility |-> FALSE, principal_ids |-> {}, started |-> None,
     duration |-> None, expiration |-> None, ended |-> None,
     webdav |-> NoAnnots, index |-> EmptyDict]

IIndirectToken(T, t) == T[t].kind = "indirect"
IExclusiveLock(T, t) == T[t].kind = "exclusive"
ISharedLock(T, t) == T[t].kind = "shared"

\* the token that holds the state: the token itself, or the root an
\* indirect token forwards to
RECURSIVE Root(_, _)
Root(T, t) == IF IIndirectToken(T, t) THEN Root(T, T[t].roottoken) ELSE t

\* EndableToken.ended, and IndirectToken.ended forwarding to it
ended(T, t) ==
    LET r == T[Root(T, t)]
    IN IF r.ended # None THEN r.ended
       ELSE IF r.expiration # None /\ r.expiration <= now THEN r.expiration
       ELSE None

\* a faulty IndirectToken.principal_ids, which answers with the token's own
\* attribute
principal_idsOwn(T, t) == T[t].principal_ids

\* IndirectToken.principal_ids, started, expiration (get), annotations
principal_ids(T, t) == T[Root(T, t)].principal_ids
started(T, t) == T[Root(T, t)].started
expiration(T, t) == T[Root(T, t)].expiration
annotations(T, t) == [webdav |-> T[Root(T, t)].webdav, index |-> T[Root(T, t)].index]

\* token.annotations[WEBDAV_LOCK_KEY] = value
Annotate(S, t, value) == [S EXCEPT !.tokens[Root(S.tokens, t)].webdav = value]

\* EndableToken.duration (get)
duration(T, t) ==
    LET r == T[Root(T, t)]
    IN IF r.started = None THEN r.duration
       ELSE IF r.expiration = None THEN None
       ELSE r.expiration - r.started

\* a faulty EndableToken.remaining_duration, which is not held at zero once
\* the expiration has passed
remaining_durationUnclamped(T, t) ==
    LET r == T[Root(T, t)]
    IN IF r.started = None THEN r.duration
       ELSE IF r.expiration = None THEN None
       ELSE r.expiration - now

\* EndableToken.remaining_duration (get); None when there is no expiration
remaining_duration(T, t) ==
    LET r == T[Root(T, t)]
    IN IF r.started = None THEN r.duration
       ELSE IF ended(T, t) # None THEN 0
       ELSE IF r.expiration = None THEN None
       ELSE r.expiration - now

---------------------------------------------------------------------------
(* Stores *)

Store(T, L) == [tokens |-> T, locks |-> L, exc |-> NoExc]
Raise(S, e) == [S EXCEPT !.exc = e]
Here == Store(tokens, locks)

\* the table of token objects has MaxTokens slots for the tokens of each
\* resource
Slots == 1..(MaxTokens * Cardinality(Resources))
SlotsOf(target) ==
    {t \in Slots : \E k \in 0..(MaxTokens - 1) :
                      t = target + k * Cardinality(Resources)}
NoToken == [kind |-> "none", context |-> None, roottoken |-> None,
            utility |-> FALSE, principal_ids |-> {}, started |-> None,
            duration |-> None, expiration |-> None, ended |-> None,
            webdav |-> NoAnnots, index |-> EmptyDict]
Live(T) == {t \in Slots : T[t] # NoToken}


---------------------------------------------------------------------------
(* zope.locking.utility.TokenUtility, as this package uses it *)

\* a faulty TokenUtility.get, which answers with the registered token
\* whether it has ended or not
getIgnoringEnded(S, obj) == S.locks[obj]

\* TokenUtility.get: the registered token, unless it has ended
get(S, obj) ==
    LET res == S.locks[obj]
    IN IF res # None /\ ended(S.tokens, res) = None THEN res ELSE None

\* a faulty utility setter, with which an indirect token does not enter
\* itself in the index of its root token
SetUtilityWithoutIndex(S, t) ==
    LET T == S.tokens
        tok == T[t]
        root == tok.roottoken
    IN IF tok.utility THEN S
       ELSE IF IIndirectToken(T, t)
       THEN IF ~T[root].utility THEN Raise(S, "ValueError")
            ELSE [S EXCEPT !.tokens[t].utility = TRUE]
       ELSE [S EXCEPT
               !.tokens[t] = [tok EXCEPT
                   !.utility = TRUE,
                   !.started = now,
                   !.expiration = IF tok.duration # None
                                  THEN now + tok.duration ELSE None,
                   !.duration = None]]

\* `token.utility = self` in TokenUtility.register, for a token whose
\* utility is not set yet.  A root token starts its clock; an indirect token
\* (IndirectToken.utility, set) enters itself in the root's index.
SetUtility(S, t) ==
    LET T == S.tokens
        tok == T[t]
        root == tok.roottoken
        holder == Root(T, t)
    IN IF tok.utility THEN S
       ELSE IF IIndirectToken(T, t)
       THEN IF ~T[root].utility THEN Raise(S, "ValueError")
            ELSE IF tok.context \in DOMAIN T[holder].index
            THEN Raise(S, "AssertionError")
            ELSE [S EXCEPT
                    !.tokens = [[T EXCEPT ![holder].index =
                                     DictSet(@, tok.context, t)]
                                  EXCEPT ![t].utility = TRUE]]
       ELSE [S EXCEPT
               !.tokens[t] = [tok EXCEPT
                   !.utility = TRUE,
                   !.started = now,
                   !.expiration = IF tok.duration # None
                                  THEN now + tok.duration ELSE None,
                   !.duration = None]]

\* a faulty TokenUtility.register, which stores the token whatever token is
\* registered for the object
registerOverwriting(S0, t) ==
    LET S == SetUtility(S0, t)
        key == S.tokens[t].context
    IN IF S.exc # NoExc THEN S
       ELSE IF S.locks[key] = t /\ ended(S.tokens, t) # None
       THEN [S EXCEPT !.locks[key] = None]
       ELSE [S EXCEPT !.locks[key] = t]

\* TokenUtility.register
register(S0, t) ==
    LET S == SetUtility(S0, t)
        T == S.tokens
        key == T[t].context
        current == S.locks[key]
    IN IF S.exc # NoExc THEN S
       ELSE IF current # None /\ current # t /\ ended(T, current) = None
       THEN Raise(S, "RegistrationError")
       ELSE IF current = t /\ ended(T, t) # None
       THEN [S EXCEPT !.locks[key] = None]
       ELSE [S EXCEPT !.locks[key] = t]

\* a new token object for a resource takes the first of the resource's
\* slots that holds no object
FreeSlots(T, target) == {t \in SlotsOf(target) : T[t] = NoToken}
Alloc(S, target) ==
    CHOOSE t \in FreeSlots(S.tokens, target) :
        \A u \in FreeSlots(S.tokens, target) : t <= u
New(S, tok) == [S EXCEPT !.tokens[Alloc(S, tok.context)] = tok]

\* the tokens an object refers to: an indirect token its root token, a
\* root token the indirect tokens in its index
Refs(T, t) ==
    (IF T[t].roottoken # None THEN {T[t].roottoken} ELSE {})
        \cup {T[t].index[k] : k \in DOMAIN T[t].index}

\* the tokens that can still be reached: from the utility's _locks, and
\* from those tokens
RECURSIVE Closure(_, _)
Closure(T, seen) ==
    LET more == seen \cup UNION {Refs(T, t) : t \in seen}
    IN IF more = seen THEN seen ELSE Closure(T, more)

Reachable(S) ==
    Closure(S.tokens, {S.locks[r] : r \in Resources} \ {None})

\* a token object nothing refers to any more is gone
Collect(S) ==
    LET reachable == Reachable(S)
    IN [S EXCEPT !.tokens = [t \in Slots |->
           IF t \in reachable THEN S.tokens[t] ELSE NoToken]]

\* the same while calls that have not returned refer to the tokens held:
\* those tokens and what they refer to stay
CollectHolding(S, held) ==
    LET reachable == Reachable(S) \cup Closure(S.tokens, held \ {None})
    IN [S EXCEPT !.tokens = [t \in Slots |->
           IF t \in reachable THEN S.tokens[t] ELSE NoToken]]

---------------------------------------------------------------------------
(* Token methods: zope.locking.tokens on a root token, IndirectToken       *)
(* forwarding to its root token                                            *)

\* removeEndedTokens: one round of the loop, for one item (key_ref, token)
\* of the snapshot of the root's index
removeItem(S, roottoken, key_ref, token) ==
    LET S1 == register(S, token)
    IN IF S1.exc # NoExc THEN S1
       ELSE [S1 EXCEPT !.tokens[roottoken].index = DictDel(@, key_ref)]

\* removeEndedTokens: the loop over the snapshot of the root's index
RECURSIVE RemoveItems(_, _, _)
RemoveItems(S, roottoken, keys) ==
    IF keys = <<>> THEN S
    ELSE LET key_ref == Head(keys)
             S1 == removeItem(S, roottoken, key_ref,
                              S.tokens[roottoken].index[key_ref])
         IN IF S1.exc # NoExc THEN S1
            ELSE RemoveItems(S1, roottoken, Tail(keys))

\* a faulty removeEndedTokens, which loops over the index while deleting
\* from it and so misses the items after the first
removeEndedTokensLoopingOverIndex(S, roottoken) ==
    LET keys == SetToSeq(DOMAIN S.tokens[roottoken].index)
    IN RemoveItems(S, roottoken, IF keys = <<>> THEN <<>> ELSE <<Head(keys)>>)

\* a faulty removeEndedTokens, which unlocks by location: it takes every
\* resource below the root token's resource out of the utility
removeEndedTokensBelowContext(S, roottoken) ==
    [S EXCEPT !.locks = [r \in Resources |->
                            IF r \in Descendants(parent, S.tokens[roottoken].context)
                            THEN None ELSE S.locks[r]],
              !.tokens[roottoken].index = EmptyDict]

\* removeEndedTokens, subscriber of ITokenEndedEvent
removeEndedTokens(S, roottoken) ==
    RemoveItems(S, roottoken, SetToSeq(DOMAIN S.tokens[roottoken].index))

\* zope.event.notify(TokenEndedEvent(token)): the event is dispatched to its
\* subscriber before end() returns
notify(S, token) == removeEndedTokens(S, token)

\* EndableToken.end up to the event: the token ends and is registered anew
EndToken(S, r) ==
    IF ended(S.tokens, r) # None THEN Raise(S, "EndedError")
    ELSE register([S EXCEPT !.tokens[r].ended = now], r)

\* EndableToken.end
RootEnd(S, r) ==
    LET S1 == EndToken(S, r)
    IN IF S1.exc # NoExc THEN S1 ELSE notify(S1, r)

\* a faulty IndirectToken.end, which does not reach the root token
endNotForwarded(S, t) ==
    IF IIndirectToken(S.tokens, t) THEN S ELSE RootEnd(S, t)

\* IndirectToken.end
end(S, t) ==
    IF IIndirectToken(S.tokens, t) THEN RootEnd(S, Root(S.tokens, t))
    ELSE RootEnd(S, t)

\* SharedLock.add
RootAdd(S, r, pids) ==
    IF ended(S.tokens, r) # None THEN Raise(S, "EndedError")
    ELSE LET old == S.tokens[r].principal_ids
             S1 == [S EXCEPT !.tokens[r].principal_ids = @ \cup pids]
         IN IF old # S1.tokens[r].principal_ids THEN register(S1, r) ELSE S1

\* SharedLock.remove
RootRemove(S, r, pids) ==
    IF ended(S.tokens, r) # None THEN Raise(S, "EndedError")
    ELSE LET old == S.tokens[r].principal_ids
             S1 == [S EXCEPT !.tokens[r].principal_ids = @ \ pids]
         IN IF S1.tokens[r].principal_ids = {} THEN RootEnd(S1, r)
            ELSE IF old # S1.tokens[r].principal_ids THEN register(S1, r)
            ELSE S1

\* a faulty IndirectToken.add, which adds the principals to the root token
\* whatever kind of token that is
addToAnyRoot(S, t, pids) ==
    IF IIndirectToken(S.tokens, t)
    THEN RootAdd(S, S.tokens[t].roottoken, pids)
    ELSE RootAdd(S, t, pids)

\* IndirectToken.add
add(S, t, pids) ==
    IF IIndirectToken(S.tokens, t)
    THEN IF ~ISharedLock(S.tokens, S.tokens[t].roottoken)
         THEN Raise(S, "TypeError")
         ELSE RootAdd(S, S.tokens[t].roottoken, pids)
    ELSE RootAdd(S, t, pids)

\* IndirectToken.remove
remove(S, t, pids) ==
    IF IIndirectToken(S.tokens, t)
    THEN IF ~ISharedLock(S.tokens, S.tokens[t].roottoken)
         THEN Raise(S, "TypeError")
         ELSE RootRemove(S, S.tokens[t].roottoken, pids)
    ELSE RootRemove(S, t, pids)

\* a faulty EndableToken.expiration (set), which does not look at whether
\* the token has ended
RootSetExpirationOnEnded(S, r, value) ==
    LET old == S.tokens[r].expiration
        S1 == [S EXCEPT !.tokens[r].expiration = value]
    IN IF old # value THEN register(S1, r) ELSE S1

\* EndableToken.expiration (set)
RootSetExpiration(S, r, value) ==
    IF ended(S.tokens, r) # None THEN Raise(S, "EndedError")
    ELSE LET old == S.tokens[r].expiration
             S1 == [S EXCEPT !.tokens[r].expiration = value]
         IN IF old # value THEN register(S1, r) ELSE S1

\* a faulty EndableToken.duration (set), which counts the duration from now
RootSetDurationFromNow(S, r, value) ==
    IF ended(S.tokens, r) # None THEN Raise(S, "EndedError")
    ELSE LET old == S.tokens[r].expiration
             new == IF value = None THEN None ELSE now + value
             S1 == [S EXCEPT !.tokens[r].expiration = new]
         IN IF old # new THEN register(S1, r) ELSE S1

\* EndableToken.duration (set), on a token in the utility: the duration
\* counts from the time the token started
RootSetDuration(S, r, value) ==
    IF ended(S.tokens, r) # None THEN Raise(S, "EndedError")
    ELSE LET old == S.tokens[r].expiration
             new == IF value = None THEN None ELSE S.tokens[r].started + value
             S1 == [S EXCEPT !.tokens[r].expiration = new]
         IN IF old # new THEN register(S1, r) ELSE S1

\* a faulty EndableToken.remaining_duration (set), which does not look at
\* whether the token has ended
RootSetRemainingDurationOnEnded(S, r, value) ==
    LET old == S.tokens[r].expiration
        new == IF value = None THEN None ELSE now + value
        S1 == [S EXCEPT !.tokens[r].expiration = new]
    IN IF old # new THEN register(S1, r) ELSE S1

\* EndableToken.remaining_duration (set): the duration counts from now
RootSetRemainingDuration(S, r, value) ==
    IF ended(S.tokens, r) # None THEN Raise(S, "EndedError")
    ELSE LET old == S.tokens[r].expiration
             new == IF value = None THEN None ELSE now + value
             S1 == [S EXCEPT !.tokens[r].expiration = new]
         IN IF old # new THEN register(S1, r) ELSE S1

\* IndirectToken.expiration (set)
SetExpiration(S, t, value) == RootSetExpiration(S, Root(S.tokens, t), value)

\* a faulty IndirectToken.duration (set), which keeps the value on the token
\* it is set on
SetDurationOwn(S, t, value) == [S EXCEPT !.tokens[t].duration = value]

\* IndirectToken.duration (set)
SetDuration(S, t, value) == RootSetDuration(S, Root(S.tokens, t), value)

\* IndirectToken.remaining_duration (set)
SetRemainingDuration(S, t, value) ==
    RootSetRemainingDuration(S, Root(S.tokens, t), value)

---------------------------------------------------------------------------
(* DAVLockmanager *)

\* roottoken.annotations[WEBDAV_LOCK_KEY] = OOBTree()
FreshAnnots == [NoAnnots EXCEPT !.has = TRUE]

\* annots["principal_ids"] = [principal_id]
FreshSharedAnnots(principal_id) ==
    [FreshAnnots EXCEPT !.haspids = TRUE, !.principal_ids = <<principal_id>>]

\* DAVLockmanager.maybeRecursivelyLockIndirectly, and the body of its loop
\* over context.values()
RECURSIVE maybeRecursivelyLockIndirectly(_, _, _, _)
RECURSIVE LockSubobs(_, _, _, _)
maybeRecursivelyLockIndirectly(S, context, roottoken, depth) ==
    IF depth = "infinity" /\ context \in Folders
    THEN LockSubobs(S, values(context), roottoken, depth)
    ELSE S

LockSubobs(S, subobs, roottoken, depth) ==
    IF subobs = <<>> THEN S
    ELSE LET subob == Head(subobs)
             token == get(S, subob)
             S1 == New(S, IndirectToken(subob, roottoken))
             S2 == register(S1, Alloc(S, subob))
             S3 == maybeRecursivelyLockIndirectly(S2, subob, roottoken, depth)
         IN IF token # None THEN Raise(S, "AlreadyLocked")
            ELSE IF S2.exc # NoExc THEN S2
            ELSE IF S3.exc # NoExc THEN S3
            ELSE LockSubobs(S3, Tail(subobs), roottoken, depth)

\* a faulty DAVLockmanager.register, which puts the token in the place of
\* the token the resource holds
ManagerRegisterReplacing(S, token) == registerOverwriting(S, token)

\* DAVLockmanager.register
ManagerRegister(S, token) ==
    LET S1 == register(S, token)
    IN IF S1.exc = "RegistrationError" THEN Raise(S1, "AlreadyLocked") ELSE S1

\* annots[locktoken] = OOBTree(); annots[locktoken].update(...), then the
\* recursive descent: the end of DAVLockmanager.lock
LockFinish(S, context, roottoken, locktoken, owner, depth) ==
    maybeRecursivelyLockIndirectly(
        [S EXCEPT !.tokens[roottoken].webdav.handles =
             DictSet(@, locktoken, [owner |-> owner, depth |-> depth])],
        context, roottoken, depth)

\* a faulty exclusive branch of DAVLockmanager.lock, which undoes what it
\* did when the descent fails
LockExclusiveRollingBack(S, context, owner, timeout, depth, principal_id, locktoken) ==
    LET S1 == New(S, RootToken("exclusive", context, {principal_id}, timeout))
        roottoken == Alloc(S, context)
        S2 == ManagerRegister(S1, roottoken)
        S3 == LockFinish([S2 EXCEPT !.tokens[roottoken].webdav = FreshAnnots],
                         context, roottoken, locktoken, owner, depth)
    IN IF S2.exc # NoExc THEN S2
       ELSE IF S3.exc # NoExc THEN Raise(S, S3.exc)
       ELSE S3

\* DAVLockmanager.lock, scope exclusive
LockExclusive(S, context, owner, timeout, depth, principal_id, locktoken) ==
    LET S1 == New(S, RootToken("exclusive", context, {principal_id}, timeout))
        roottoken == Alloc(S, context)
        S2 == ManagerRegister(S1, roottoken)
    IN IF S2.exc # NoExc THEN S2
       ELSE LockFinish([S2 EXCEPT !.tokens[roottoken].webdav = FreshAnnots],
                       context, roottoken, locktoken, owner, depth)

\* a faulty shared branch of DAVLockmanager.lock, which joins whatever
\* token it finds on the resource
LockSharedJoiningAnyToken(S, context, owner, timeout, depth, principal_id, locktoken) ==
    LET found == get(S, context)
        S1 == New(S, RootToken("shared", context, {principal_id}, timeout))
        created == Alloc(S, context)
        S2 == ManagerRegister(S1, created)
        A1 == RootAdd(S, Root(S.tokens, found), {principal_id})
        A2 == SetDuration(A1, found, timeout)
        A3 == Annotate(A2, found, FreshSharedAnnots(principal_id))
    IN IF found = None
       THEN IF S2.exc # NoExc THEN S2
            ELSE LockFinish(
                   [S2 EXCEPT !.tokens[created].webdav =
                                  FreshSharedAnnots(principal_id)],
                   context, created, locktoken, owner, depth)
       ELSE IF A1.exc # NoExc THEN A1
       ELSE IF A2.exc # NoExc THEN A2
       ELSE [A3 EXCEPT !.tokens[Root(S.tokens, found)].webdav.handles =
                DictSet(@, locktoken, [owner |-> owner, depth |-> depth])]

\* DAVLockmanager.lock, scope shared
LockShared(S, context, owner, timeout, depth, principal_id, locktoken) ==
    LET found == get(S, context)
        S1 == New(S, RootToken("shared", context, {principal_id}, timeout))
        created == Alloc(S, context)
        S2 == ManagerRegister(S1, created)
        A1 == add(S, found, {principal_id})
        A2 == SetDuration(A1, found, timeout)
        A3 == IF ~A2.tokens[found].webdav.has
              THEN [A2 EXCEPT !.tokens[found].webdav =
                                  FreshSharedAnnots(principal_id)]
              ELSE [A2 EXCEPT !.tokens[found].webdav.principal_ids =
                                  Append(@, principal_id)]
    IN IF found = None
       THEN IF S2.exc # NoExc THEN S2
            ELSE LockFinish(
                   [S2 EXCEPT !.tokens[created].webdav =
                                  FreshSharedAnnots(principal_id)],
                   context, created, locktoken, owner, depth)
       ELSE IF ~ISharedLock(S.tokens, found) THEN Raise(S, "AlreadyLocked")
       ELSE IF A1.exc # NoExc THEN A1
       ELSE IF A2.exc # NoExc THEN A2
       ELSE LockFinish(A3, context, found, locktoken, owner, depth)

\* a faulty DAVLockmanager.lock, which takes every scope that is not
\* exclusive for shared
lockUnknownScopeAsShared(S, context, scope, owner, timeout, depth, principal_id, locktoken) ==
    IF scope = "exclusive"
    THEN LockExclusive(S, context, owner, timeout, depth, principal_id, locktoken)
    ELSE LockShared(S, context, owner, timeout, depth, principal_id, locktoken)

\* DAVLockmanager.lock
lock(S, context, scope, owner, timeout, depth, principal_id, locktoken) ==
    IF scope = "exclusive"
    THEN LockExclusive(S, context, owner, timeout, depth, principal_id, locktoken)
    ELSE IF scope = "shared"
    THEN LockShared(S, context, owner, timeout, depth, principal_id, locktoken)
    ELSE Raise(S, "UnprocessableError")

\* DAVLockmanager.refreshlock
refreshlock(S, context, timeout) ==
    LET token == get(S, context)
    IN IF token = None THEN Raise(S, "AttributeError")
       ELSE SetDuration(S, token, timeout)

\* a faulty shared branch of DAVLockmanager.unlock, which never takes the
\* principal off the token
UnlockSharedKeepingPrincipal(S, token, locktoken, principal_id) ==
    LET annots == S.tokens[token].webdav
        S1 == [S EXCEPT !.tokens[token].webdav.handles = DictDel(@, locktoken)]
        S2 == [S1 EXCEPT !.tokens[token].webdav.principal_ids =
                             ListRemove(@, principal_id)]
    IN IF ~annots.has THEN Raise(S, "KeyError")
       ELSE IF locktoken \notin DOMAIN annots.handles THEN Raise(S, "KeyError")
       ELSE IF ~annots.haspids THEN Raise(S1, "KeyError")
       ELSE IF principal_id \notin ListSet(annots.principal_ids)
       THEN Raise(S1, "ValueError")
       ELSE S2

\* a faulty shared branch of DAVLockmanager.unlock, which takes the
\* principal off the token whatever the list says
UnlockSharedAlwaysRemoving(S, token, locktoken, principal_id) ==
    LET annots == S.tokens[token].webdav
        S1 == [S EXCEPT !.tokens[token].webdav.handles = DictDel(@, locktoken)]
        S2 == [S1 EXCEPT !.tokens[token].webdav.principal_ids =
                             ListRemove(@, principal_id)]
    IN IF ~annots.has THEN Raise(S, "KeyError")
       ELSE IF locktoken \notin DOMAIN annots.handles THEN Raise(S, "KeyError")
       ELSE IF ~annots.haspids THEN Raise(S1, "KeyError")
       ELSE IF principal_id \notin ListSet(annots.principal_ids)
       THEN Raise(S1, "ValueError")
       ELSE RootRemove(S2, token, {principal_id})

\* DAVLockmanager.unlock, the shared branch
UnlockShared(S, token, locktoken, principal_id) ==
    LET annots == S.tokens[token].webdav
        S1 == [S EXCEPT !.tokens[token].webdav.handles = DictDel(@, locktoken)]
        S2 == [S1 EXCEPT !.tokens[token].webdav.principal_ids =
                             ListRemove(@, principal_id)]
    IN IF ~annots.has THEN Raise(S, "KeyError")
       ELSE IF locktoken \notin DOMAIN annots.handles THEN Raise(S, "KeyError")
       ELSE IF ~annots.haspids THEN Raise(S1, "KeyError")
       ELSE IF principal_id \notin ListSet(annots.principal_ids)
       THEN Raise(S1, "ValueError")
       ELSE IF principal_id \notin ListSet(S2.tokens[token].webdav.principal_ids)
       THEN RootRemove(S2, token, {principal_id})
       ELSE S2

\* a faulty unlock, which takes the utility's entry for the resource as it
\* is, ended or not
unlockWhateverIsRegistered(S, context, locktoken, principal_id) ==
    LET found == S.locks[context]
        token == IF IIndirectToken(S.tokens, found)
                 THEN S.tokens[found].roottoken ELSE found
    IN IF found = None THEN Raise(S, "ConflictError")
       ELSE IF IExclusiveLock(S.tokens, token) THEN RootEnd(S, token)
       ELSE IF ISharedLock(S.tokens, token)
       THEN UnlockShared(S, token, locktoken, principal_id)
       ELSE Raise(S, "ValueError")

\* DAVLockmanager.unlock
unlock(S, context, locktoken, principal_id) ==
    LET found == get(S, context)
        token == IF IIndirectToken(S.tokens, found)
                 THEN S.tokens[found].roottoken ELSE found
    IN IF found = None THEN Raise(S, "ConflictError")
       ELSE IF IExclusiveLock(S.tokens, token) THEN RootEnd(S, token)
       ELSE IF ISharedLock(S.tokens, token)
       THEN UnlockShared(S, token, locktoken, principal_id)
       ELSE Raise(S, "ValueError")

\* DAVLockmanager.islocked
islocked(S, context) == get(S, context) # None

---------------------------------------------------------------------------
(* The container event subscriber *)

\* a faulty indirectlyLockObjectOnMovedEvent, which locks the object against
\* the token of the new parent as it is, a root token or not
indirectlyLockAgainstParentToken(S, object, oldParent, newParent, method, ifObject, ifParent) ==
    LET objectToken == get(S, object)
        parentToken == get(S, newParent)
        S1 == New(S, IndirectToken(object, parentToken))
    IN IF method \in BROWSER_METHODS THEN S
       ELSE IF objectToken # None /\ oldParent # None /\ ~ifObject
       THEN Raise(S, "AlreadyLocked")
       ELSE IF newParent = None THEN S
       ELSE IF parentToken = None THEN S
       ELSE IF ~ifParent THEN Raise(S, "AlreadyLocked")
       ELSE IF objectToken # None THEN Raise(S, "AlreadyLocked")
       ELSE register(S1, Alloc(S, object))

\* a faulty indirectlyLockObjectOnMovedEvent, which does not look at the
\* token the object holds once the If header matches the new parent
indirectlyLockWhateverTheObjectHolds(S, object, oldParent, newParent, method, ifObject, ifParent) ==
    LET objectToken == get(S, object)
        parentToken == get(S, newParent)
        rootToken == IF IIndirectToken(S.tokens, parentToken)
                     THEN S.tokens[parentToken].roottoken ELSE parentToken
        S1 == New(S, IndirectToken(object, rootToken))
    IN IF method \in BROWSER_METHODS THEN S
       ELSE IF objectToken # None /\ oldParent # None /\ ~ifObject
       THEN Raise(S, "AlreadyLocked")
       ELSE IF newParent = None THEN S
       ELSE IF parentToken = None THEN S
       ELSE IF ~ifParent THEN Raise(S, "AlreadyLocked")
       ELSE register(S1, Alloc(S, object))

\* indirectlyLockObjectOnMovedEvent.  ifObject and ifParent are what
\* matchesIfHeader answers for the object and for the new parent.
indirectlyLockObjectOnMovedEvent(S, object, oldParent, newParent, method, ifObject, ifParent) ==
    LET objectToken == get(S, object)
        parentToken == get(S, newParent)
        rootToken == IF IIndirectToken(S.tokens, parentToken)
                     THEN S.tokens[parentToken].roottoken ELSE parentToken
        S1 == New(S, IndirectToken(object, rootToken))
    IN IF method \in BROWSER_METHODS THEN S
       ELSE IF objectToken # None /\ oldParent # None /\ ~ifObject
       THEN Raise(S, "AlreadyLocked")
       ELSE IF newParent = None THEN S
       ELSE IF parentToken = None THEN S
       ELSE IF ~ifParent THEN Raise(S, "AlreadyLocked")
       ELSE IF objectToken # None THEN Raise(S, "AlreadyLocked")
       ELSE register(S1, Alloc(S, object))

---------------------------------------------------------------------------
(* The state machine *)

\* no call of end() is stopped: every call so far ran from start to end
NoEnding == [roottoken |-> None, items |-> <<>>, at |-> 0]

\* a call leaves the store behind while the calls that refer to the tokens
\* held have not returned
CommitHolding(S, held) ==
    /\ tokens' = CollectHolding(S, held).tokens
    /\ locks' = S.locks

\* the call returns (or raises) and leaves the store behind; the stopped
\* calls go on referring to their root tokens
Commit(S) == CommitHolding(S, {pending.roottoken, ending.roottoken})

\* z3c.dav.locking.generateLocktoken(): a lock token no lock carries, out
\* of a pool of lock tokens
HandleUsed(T, h) == \E t \in Slots : h \in DOMAIN T[t].webdav.handles
FreeHandles(T, pool) == {h \in pool : ~HandleUsed(T, h)}
generateLocktoken(T, pool) ==
    CHOOSE h \in FreeHandles(T, pool) : \A g \in FreeHandles(T, pool) : h <= g

\* no request is stopped: every request so far ran from start to end
NoPending == [roottoken |-> None, subobs |-> <<>>]

\* Any two resources can have been adapted to IKeyReference in either
\* order: utility.get adapts the resource it is asked about, and islocked
\* is such a call and leaves nothing else behind.  The collection at the
\* top is never the key of an index, so its place says nothing; it is put
\* first.
KeyReferenceOrders == {<<1, 2, 3>>, <<1, 3, 2>>}

\* the orders a folder's dict can have for the folder and the file, the
\* only resources that can be members of one folder together
DictOrders == {<<2, 3>>, <<3, 2>>}

Init ==
    /\ now = 1
    /\ parent = [r \in Resources |->
                    IF r = 1 THEN None ELSE r - 1]
    /\ tokens = [t \in Slots |-> NoToken]
    /\ locks = [r \in Resources |-> None]
    /\ pending = NoPending
    /\ ending = NoEnding
    /\ keyrefs \in KeyReferenceOrders
    /\ dictorder = <<2, 3>>

\* the clock moves on
Tick ==
    /\ now < MaxTime
    /\ now' = now + 1
    /\ UNCHANGED <<parent, tokens, locks, pending, ending, keyrefs, dictorder>>

\* there is a lock token and room for the tokens a lock may create, and for
\* one more principal in the list of a shared lock
CanLock(context, pool) ==
    /\ FreeHandles(tokens, pool) # {}
    /\ get(Here, context) # None =>
          Len(tokens[get(Here, context)].webdav.principal_ids) < MaxList
    /\ \A r \in {context} \cup Descendants(parent, context) :
          FreeSlots(tokens, r) # {}

\* a request calls DAVLockmanager(context).lock(scope, 'write', owner,
\* timeout, depth) with principal_id the interaction's principal
Lock(context, scope, owner, timeout, depth, principal_id, pool) ==
    /\ CanLock(context, pool)
    /\ LET S == lock(Here, context, scope, owner, timeout, depth,
                     principal_id, generateLocktoken(tokens, pool))
       IN Commit(S)
    /\ UNCHANGED <<now, parent, pending, ending, keyrefs, dictorder>>

\* DAVLockmanager(context).unlock(locktoken)
Unlock(context, locktoken, principal_id) ==
    /\ LET S == unlock(Here, context, locktoken, principal_id)
       IN Commit(S)
    /\ UNCHANGED <<now, parent, pending, ending, keyrefs, dictorder>>

\* DAVLockmanager(context).refreshlock(timeout)
Refresh(context, timeout) ==
    /\ LET S == refreshlock(Here, context, timeout)
       IN Commit(S)
    /\ UNCHANGED <<now, parent, pending, ending, keyrefs, dictorder>>

\* the container modifications there can be: the root collection stays,
\* nothing moves below itself, and something changes
CanMove(object, newParent) ==
    /\ object # 1
    /\ newParent \in Folders \cup {None}
    /\ newParent # object
    /\ newParent # None => object \notin Ancestors(parent, newParent)
    /\ object = 2 => newParent # 2
    /\ parent[object] # None \/ newParent # None
    /\ FreeSlots(tokens, object) # {}

\* a container is modified (object added, removed or moved) and the event
\* reaches indirectlyLockObjectOnMovedEvent.  The container is modified
\* before the subscriber runs (DemoFolder.__setitem__), and nothing undoes
\* that when the subscriber raises.  The name the object is given decides
\* where the folder's dict has it among the members of the folder: when
\* the folder and the file are then in one folder either order can be the
\* outcome, and with one member in every folder the order says nothing.
Moved(object, newParent, method, ifObject, ifParent) ==
    /\ CanMove(object, newParent)
    /\ LET S == indirectlyLockObjectOnMovedEvent(
                    Here, object, parent[object], newParent,
                    method, ifObject, ifParent)
       IN Commit(S)
    /\ parent' = [parent EXCEPT ![object] = newParent]
    /\ dictorder' \in IF newParent # None /\ parent'[2] = parent'[3]
                      THEN DictOrders ELSE {<<2, 3>>}
    /\ UNCHANGED <<now, pending, ending, keyrefs>>

\* token.end() on a root or an indirect token
End(t) ==
    /\ LET S == end(Here, t)
       IN Commit(S)
    /\ UNCHANGED <<now, parent, pending, ending, keyrefs, dictorder>>

\* token.add((principal_id,)) on a shared or an indirect token
Add(t, principal_id) ==
    /\ ~IExclusiveLock(tokens, t)
    /\ LET S == add(Here, t, {principal_id})
       IN Commit(S)
    /\ UNCHANGED <<now, parent, pending, ending, keyrefs, dictorder>>

\* token.remove((principal_id,)) on a shared or an indirect token
Remove(t, principal_id) ==
    /\ ~IExclusiveLock(tokens, t)
    /\ LET S == remove(Here, t, {principal_id})
       IN Commit(S)
    /\ UNCHANGED <<now, parent, pending, ending, keyrefs, dictorder>>

\* token.duration = value
AssignDuration(t, value) ==
    /\ LET S == SetDuration(Here, t, value)
       IN Commit(S)
    /\ UNCHANGED <<now, parent, pending, ending, keyrefs, dictorder>>

\* token.remaining_duration = value
AssignRemainingDuration(t, value) ==
    /\ LET S == SetRemainingDuration(Here, t, value)
       IN Commit(S)
    /\ UNCHANGED <<now, parent, pending, ending, keyrefs, dictorder>>

\* token.expiration = value
AssignExpiration(t, value) ==
    /\ LET S == SetExpiration(Here, t, value)
       IN Commit(S)
    /\ UNCHANGED <<now, parent, pending, ending, keyrefs, dictorder>>

\* another application registers a plain zope.locking token
Foreign(context, kind, principal_id) ==
    /\ FreeSlots(tokens, context) # {}
    /\ LET S1 == New(Here, RootToken(kind, context, {principal_id}, None))
           S == register(S1, Alloc(Here, context))
       IN Commit(S)
    /\ UNCHANGED <<now, parent, pending, ending, keyrefs, dictorder>>

---------------------------------------------------------------------------
(* Specifications.  Each follows the same calls and differs in the inputs   *)
(* the calls are given.                                                     *)

\* one principal locks and unlocks anywhere in a tree that changes, and
\* locks time out
Next ==
    \/ Tick
    \/ \E context \in Resources, scope \in Scopes, depth \in Depths :
          Lock(context, scope, "Owner A", 1, depth, "alice", {1, 2})
    \/ \E context \in Resources, locktoken \in {1, 2} :
          Unlock(context, locktoken, "alice")
    \/ \E object \in Resources, newParent \in Folders \cup {None},
          request \in Requests :
          Moved(object, newParent, request.method, request.ifObject,
                request.ifParent)
    \/ \E t \in Live(tokens) : End(t)

Spec == Init /\ [][Next]_vars

\* the same, and the principal refreshes locks
NextFull ==
    \/ Next
    \/ \E context \in Resources : Refresh(context, 2)

SpecFull == Init /\ [][NextFull]_vars

\* the tree stays as it is; one principal locks the collections, and
\* callers use the tokens themselves: they end them, add and remove
\* principals, and set the three timing attributes
NextTokens ==
    \/ Tick
    \/ \E context \in Folders, scope \in {"exclusive", "shared"},
          timeout \in Durations, depth \in Depths :
          Lock(context, scope, "Owner A", timeout, depth, "alice", {1, 2})
    \/ \E t \in Live(tokens) : End(t)
    \/ \E t \in Live(tokens), p \in Principals : Add(t, p)
    \/ \E t \in Live(tokens), p \in Principals : Remove(t, p)
    \/ \E t \in Live(tokens), value \in Durations \cup {None} :
          AssignDuration(t, value)
    \/ \E t \in Live(tokens), value \in Durations \cup {None} :
          AssignRemainingDuration(t, value)
    \/ \E t \in Live(tokens), value \in (2..(MaxTime + 1)) \cup {None} :
          AssignExpiration(t, value)

SpecTokens == Init /\ [][NextTokens]_vars

\* the owner a principal names in its lock requests
OwnerOf(principal_id) == IF principal_id = "alice" THEN "Owner A" ELSE "Owner B"

\* the tree stays as it is; two principals lock the collection at the top
\* and unlock through the collection and through the file, with any of the
\* lock tokens
NextShared ==
    \/ Tick
    \/ \E scope \in {"exclusive", "shared"}, depth \in Depths,
          p \in Principals :
          Lock(1, scope, OwnerOf(p), 2, depth, p, Handles)
    \/ \E context \in {1, 3}, locktoken \in Handles, p \in Principals :
          Unlock(context, locktoken, p)

SpecShared == Init /\ [][NextShared]_vars

\* the tree stays as it is; one principal locks anything in it with any
\* scope and depth, and unlocks
NextLocks ==
    \/ Tick
    \/ \E context \in Resources, scope \in Scopes, depth \in Depths :
          Lock(context, scope, "Owner A", 1, depth, "alice", {1, 2})
    \/ \E context \in Resources, locktoken \in {1, 2} :
          Unlock(context, locktoken, "alice")

SpecLocks == Init /\ [][NextLocks]_vars

\* one principal locks resources while WebDAV requests add, remove and move
\* resources; nothing is unlocked, locks go away by expiry only
NextMoves ==
    \/ Tick
    \/ \E context \in Resources, scope \in {"exclusive", "shared"},
          depth \in Depths :
          Lock(context, scope, "Owner A", 1, depth, "alice", {1, 2})
    \/ \E object \in Resources, newParent \in Folders \cup {None},
          request \in Requests :
          Moved(object, newParent, request.method, request.ifObject,
                request.ifParent)

SpecMoves == Init /\ [][NextMoves]_vars

\* the tree stays as it is; one principal locks the collections with all
\* their members, and callers set the three timing attributes of the tokens
NextTiming ==
    \/ Tick
    \/ \E context \in Folders, scope \in {"exclusive", "shared"},
          timeout \in Durations :
          Lock(context, scope, "Owner A", timeout, "infinity", "alice", {1, 2})
    \/ \E t \in Live(tokens), value \in Durations \cup {None} :
          AssignDuration(t, value)
    \/ \E t \in Live(tokens), value \in Durations \cup {None} :
          AssignRemainingDuration(t, value)
    \/ \E t \in Live(tokens), value \in (2..(MaxTime + 1)) \cup {None} :
          AssignExpiration(t, value)

SpecTiming == Init /\ [][NextTiming]_vars

\* roottoken in DAVLockmanager.lock: the token utility.get finds on the
\* resource when the scope is shared, and a new token otherwise
roottokenOfLock(S, context, scope) ==
    IF scope = "shared" /\ get(S, context) # None THEN get(S, context)
    ELSE Alloc(S, context)

\* maybeRecursivelyLockIndirectly at its first member: utility.get(subob),
\* and AlreadyLocked when the member holds a token.  Until the descent lock
\* only stores the depth with the lock token, so the store it is given is
\* that of the request with depth 0, and the depth is put right here.
lookupFirstSubob(S, context, roottoken, locktoken) ==
    LET S1 == [S EXCEPT !.tokens[roottoken].webdav
                             .handles[locktoken].depth = "infinity"]
    IN IF get(S1, Head(values(context))) # None
       THEN Raise(S1, "AlreadyLocked") ELSE S1

\* DAVLockmanager.lock with depth infinity on a collection, as far as the
\* first utility.get(subob) of maybeRecursivelyLockIndirectly
lockUntilLookup(S, context, scope, owner, timeout, principal_id, locktoken) ==
    LET S0 == lock(S, context, scope, owner, timeout, "0", principal_id,
                   locktoken)
    IN IF S0.exc # NoExc THEN S0
       ELSE lookupFirstSubob(S0, context, roottokenOfLock(S, context, scope),
                             locktoken)

\* the request has raised and is over, or the member holds no token and the
\* request stops there, before utility.register, holding its root token,
\* and other requests may run
StopAtLookup(S, context, roottoken) ==
    /\ pending' = IF S.exc # NoExc THEN NoPending
                  ELSE [roottoken |-> roottoken, subobs |-> values(context)]
    /\ CommitHolding(S, {pending'.roottoken, ending.roottoken})

LockBegin(context, scope, owner, timeout, principal_id, pool) ==
    /\ pending = NoPending
    /\ CanLock(context, pool)
    /\ values(context) # <<>>
    /\ StopAtLookup(lockUntilLookup(Here, context, scope, owner, timeout,
                                    principal_id,
                                    generateLocktoken(tokens, pool)),
                    context, roottokenOfLock(Here, context, scope))
    /\ UNCHANGED <<now, parent, ending, keyrefs, dictorder>>

\* maybeRecursivelyLockIndirectly from utility.register(indirecttoken) on:
\* the indirect token for the member that was looked up is registered, the
\* descent goes into that member and then on to the members after it
registerAfterLookup(S, roottoken, subobs) ==
    LET subob == Head(subobs)
        S1 == New(S, IndirectToken(subob, roottoken))
        S2 == register(S1, Alloc(S, subob))
        S3 == maybeRecursivelyLockIndirectly(S2, subob, roottoken, "infinity")
    IN IF S2.exc # NoExc THEN S2
       ELSE IF S3.exc # NoExc THEN S3
       ELSE LockSubobs(S3, Tail(subobs), roottoken, "infinity")

\* the stopped request goes on: utility.register(indirecttoken) for the
\* member it has looked up, and the rest of the descent
LockResume ==
    /\ pending # NoPending
    /\ \A r \in Resources : FreeSlots(tokens, r) # {}
    /\ CommitHolding(registerAfterLookup(Here, pending.roottoken,
                                         pending.subobs),
                     {ending.roottoken})
    /\ pending' = NoPending
    /\ UNCHANGED <<now, parent, ending, keyrefs, dictorder>>

\* the items of the root's index as removeEndedTokens lists them before
\* its loop: list(index.items())
indexItems(S, roottoken) ==
    LET keys == SetToSeq(DOMAIN S.tokens[roottoken].index)
    IN [n \in 1..Len(keys) |->
           [key_ref |-> keys[n],
            token |-> S.tokens[roottoken].index[keys[n]]]]

\* end() has raised or found nothing in the index and is over, or it stops
\* in removeEndedTokens before the first round of the loop, and other
\* requests may run
StopAtLoop(S, roottoken) ==
    /\ ending' = IF S.exc # NoExc \/ indexItems(S, roottoken) = <<>>
                 THEN NoEnding
                 ELSE [roottoken |-> roottoken,
                       items |-> indexItems(S, roottoken), at |-> 1]
    /\ CommitHolding(S, {pending.roottoken, ending'.roottoken})

\* token.end() on a root or an indirect token, as far as the loop of
\* removeEndedTokens: the root token ends and is registered anew, the event
\* reaches the subscriber, and the subscriber lists the items of the index
EndBegin(t) ==
    /\ ending = NoEnding
    /\ StopAtLoop(EndToken(Here, Root(tokens, t)), Root(tokens, t))
    /\ UNCHANGED <<now, parent, pending, keyrefs, dictorder>>

\* the round of the loop the stopped call of end() is at
removeItemAt(S, e) ==
    removeItem(S, e.roottoken, e.items[e.at].key_ref, e.items[e.at].token)

\* after a round of the loop: end() is over when the round raised or was
\* the last one, and stops before the next round otherwise
StopAfterRound(S) ==
    /\ ending' = IF S.exc # NoExc \/ ending.at = Len(ending.items)
                 THEN NoEnding
                 ELSE [ending EXCEPT !.at = @ + 1]
    /\ CommitHolding(S, {pending.roottoken, ending'.roottoken})

\* the stopped call of end() goes on with one round of the loop
EndStep ==
    /\ ending # NoEnding
    /\ StopAfterRound(removeItemAt(Here, ending))
    /\ UNCHANGED <<now, parent, pending, keyrefs, dictorder>>

\* one principal locks resources and ends tokens, and the clock moves on; a
\* call of end() stops before every round of the loop of removeEndedTokens,
\* and lock requests run in between, on the ending root token's resources
\* and on the others
NextCascade ==
    \/ Tick
    \/ \E context \in Resources,
          scope \in {"exclusive", "shared"}, depth \in Depths :
          Lock(context, scope, "Owner A", 1, depth, "alice", {1, 2})
    \/ \E t \in Live(tokens) : EndBegin(t)
    \/ EndStep

SpecCascade == Init /\ [][NextCascade]_vars

\* two requests at a time: one principal's lock requests of depth infinity
\* stop between utility.get and utility.register, and another principal's
\* lock requests run in between
NextRace ==
    \/ \E context \in Folders, scope \in {"exclusive", "shared"} :
          LockBegin(context, scope, "Owner A", 1, "alice", Handles)
    \/ LockResume
    \/ \E context \in Resources, scope \in {"exclusive", "shared"},
          depth \in Depths :
          Lock(context, scope, "Owner B", 1, depth, "bob", Handles)

SpecRace == Init /\ [][NextRace]_vars

\* requests follow one another: one principal locks and unlocks, WebDAV
\* requests add, remove and move resources, and tokens are ended; the
\* clock stands still
NextIndex ==
    \/ \E context \in Resources, scope \in {"exclusive", "shared"},
          depth \in Depths :
          Lock(context, scope, "Owner A", 1, depth, "alice", {1, 2})
    \/ \E context \in Resources, locktoken \in {1, 2} :
          Unlock(context, locktoken, "alice")
    \/ \E object \in Resources, newParent \in Folders \cup {None} :
          Moved(object, newParent, "PUT", TRUE, TRUE)
    \/ \E t \in Live(tokens) : End(t)

SpecIndex == Init /\ [][NextIndex]_vars

---------------------------------------------------------------------------
(* Properties *)

\* the tokens of a resource that are in the token utility and have not ended
ActiveTokens(r) ==
    {t \in Live(tokens) : /\ tokens[t].context = r
                          /\ tokens[t].utility
                          /\ ended(tokens, t) = None}

\* C1: whatever lock, unlock, refreshlock, container events, end() and the
\* clock have done, a resource has at most one token in the token utility
\* that has not ended, and that token is the one the utility answers with.
C1_OneActiveTokenPerResource ==
    \A r \in Resources :
        /\ Cardinality(ActiveTokens(r)) <= 1
        /\ ActiveTokens(r) \subseteq {locks[r]}

\* C1: a resource whose ended token was replaced by a new active token, the
\* ended one still being referred to
C1_Witness ==
    \E r \in Resources : \E t, u \in Live(tokens) :
        /\ t # u
        /\ tokens[t].context = r /\ tokens[u].context = r
        /\ ActiveTokens(r) = {t}
        /\ tokens[u].utility /\ ended(tokens, u) # None

\* the root tokens in the token utility that have not ended
ActiveRoots ==
    {t \in Live(tokens) : /\ ~IIndirectToken(tokens, t)
                          /\ tokens[t].utility
                          /\ ended(tokens, t) = None}

\* the indirect tokens in the index of root token t, as the index is now
IndexOf(t) == {tokens[t].index[k] : k \in DOMAIN tokens[t].index}

\* in store S, root token t has ended explicitly and the cascade is
\* complete for what was in its index: every such token has ended, its
\* resource is unlocked, and the index is empty
Cascaded(S, t) ==
    /\ S.tokens[t].ended # None
    /\ \A k \in DOMAIN tokens[t].index :
          /\ ended(S.tokens, tokens[t].index[k]) # None
          /\ get(S, k) = None
    /\ DOMAIN S.tokens[t].index = {}

\* C2: when an active root token is ended explicitly -- end() on it or on
\* one of its indirect tokens, unlock on its resource or on a resource
\* indirectly locked against it, removal of its last principal -- and
\* removeEndedTokens has run, every indirect token that was in its index has
\* ended, utility.get answers None for each of their resources, and the
\* index is empty.
C2_CascadeComplete ==
    \A t \in ActiveRoots :
        /\ \A i \in {t} \cup IndexOf(t) :
              LET S == end(Here, i)
              IN S.exc = NoExc /\ Cascaded(S, t)
        /\ \A context \in Resources, locktoken \in Handles, p \in Principals :
              LET S == unlock(Here, context, locktoken, p)
              IN (/\ get(Here, context) \in {t} \cup IndexOf(t)
                  /\ S.exc = NoExc
                  /\ S.tokens[t].ended # None) => Cascaded(S, t)
        /\ \A p \in Principals :
              LET S == remove(Here, t, {p})
              IN (/\ ISharedLock(tokens, t)
                  /\ S.exc = NoExc
                  /\ S.tokens[t].ended # None) => Cascaded(S, t)

\* C2: a root token with two indirect tokens in its index, which unlock
\* ends, after which the two resources are unlocked and the index is empty
C2_Witness ==
    \E t \in ActiveRoots : \E context \in Resources :
        LET S == unlock(Here, context, 1, "alice")
        IN /\ Cardinality(DOMAIN tokens[t].index) = 2
           /\ get(Here, context) = t
           /\ \A k \in DOMAIN tokens[t].index : get(Here, k) # None
           /\ S.exc = NoExc
           /\ Cascaded(S, t)

\* the resources locked by root token t: those whose registered, active
\* token is t or an indirect token of t
LockSet(t) ==
    {r \in Resources : /\ get(Here, r) # None
                       /\ Root(tokens, get(Here, r)) = t}

\* in store S the root token t has ended and all of its lock set, as it is
\* now, is unlocked
SetUnlocked(S, t) ==
    /\ ended(S.tokens, t) # None
    /\ get(S, tokens[t].context) = None
    /\ \A r \in LockSet(t) : get(S, r) = None

\* C3: for every resource whose active token is an indirect token, end() on
\* that token, and unlock on the resource when the root token is exclusive
\* (whatever lock token and principal the request carries), end the root
\* token and leave the root's resource and every resource locked against
\* the root unlocked.
C3_EndingAMemberEndsTheSet ==
    \A r \in Resources :
        LET i == get(Here, r)
            t == tokens[i].roottoken
        IN (i # None /\ IIndirectToken(tokens, i)) =>
              /\ LET S == end(Here, i)
                 IN S.exc = NoExc /\ SetUnlocked(S, t)
              /\ IExclusiveLock(tokens, t) =>
                    \A locktoken \in Handles, p \in Principals :
                        LET S == unlock(Here, r, locktoken, p)
                        IN S.exc = NoExc /\ SetUnlocked(S, t)

\* C3: a file below a folder below an exclusively locked collection, all
\* three locked by the one root token; end() on the file's indirect token
\* unlocks the three of them
C3_Witness ==
    \E t \in ActiveRoots :
        LET i == get(Here, 3)
            S == end(Here, i)
        IN /\ IExclusiveLock(tokens, t)
           /\ LockSet(t) = {1, 2, 3}
           /\ tokens[t].context = 1
           /\ parent[3] = 2 /\ parent[2] = 1
           /\ IIndirectToken(tokens, i)
           /\ S.exc = NoExc
           /\ \A r \in Resources : get(S, r) = None

\* the indirect tokens there are
IndirectTokens == {i \in Live(tokens) : IIndirectToken(tokens, i)}

\* C4: in every reachable state, every indirect token answers with its root
\* token's principal_ids, started, ended, duration and expiration, and its
\* annotations are the root token's: what is written through the one (or
\* through another indirect token of the root) is read through the other.
C4_Delegation ==
    \A i \in IndirectTokens :
        LET t == tokens[i].roottoken
        IN /\ ~IIndirectToken(tokens, t)
           /\ principal_ids(tokens, i) = tokens[t].principal_ids
           /\ started(tokens, i) = tokens[t].started
           /\ ended(tokens, i) = ended(tokens, t)
           /\ duration(tokens, i) = duration(tokens, t)
           /\ expiration(tokens, i) = tokens[t].expiration
           /\ annotations(tokens, i) = annotations(tokens, t)
           /\ \A p \in Principals, j \in IndexOf(t) :
                 LET value == FreshSharedAnnots(p)
                 IN /\ annotations(Annotate(Here, i, value).tokens, t).webdav
                          = value
                    /\ annotations(Annotate(Here, t, value).tokens, i).webdav
                          = value
                    /\ annotations(Annotate(Here, i, value).tokens, j).webdav
                          = value

\* C4: an indirect token of a shared root token that two principals hold,
\* whose expiration was set after it started, and which has since expired
C4_Witness ==
    \E i \in IndirectTokens :
        LET t == tokens[i].roottoken
        IN /\ principal_ids(tokens, i) = {"alice", "bob"}
           /\ started(tokens, i) = 1
           /\ duration(tokens, i) = 1
           /\ now = 2
           /\ ended(tokens, i) = 2
           /\ Cardinality(IndexOf(t)) = 2

\* in store S the root token t and every indirect token of its index read
\* the expiration e
AllRead(S, t, e) ==
    /\ S.tokens[t].expiration = e
    /\ \A j \in {t} \cup IndexOf(t) :
          /\ expiration(S.tokens, j) = e
          /\ duration(S.tokens, j) = e - tokens[t].started
          /\ remaining_duration(S.tokens, j) = IF e <= now THEN 0 ELSE e - now

\* C5: duration, expiration or remaining_duration set through an indirect
\* token does what setting it on the root token does; when the root token
\* has not ended the root token takes the value, and the root token and
\* every indirect token of the root read it at once.
C5_TimingSetThroughIndirect ==
    \A i \in IndirectTokens :
        LET t == tokens[i].roottoken
        IN /\ \A value \in Durations :
                 /\ SetDuration(Here, i, value) = RootSetDuration(Here, t, value)
                 /\ SetRemainingDuration(Here, i, value)
                       = RootSetRemainingDuration(Here, t, value)
                 /\ ended(tokens, t) = None =>
                       /\ SetDuration(Here, i, value).exc = NoExc
                       /\ AllRead(SetDuration(Here, i, value), t,
                                  tokens[t].started + value)
                       /\ SetRemainingDuration(Here, i, value).exc = NoExc
                       /\ AllRead(SetRemainingDuration(Here, i, value), t,
                                  now + value)
           /\ \A value \in 1..(MaxTime + 2) :
                 /\ SetExpiration(Here, i, value)
                       = RootSetExpiration(Here, t, value)
                 /\ ended(tokens, t) = None =>
                       /\ SetExpiration(Here, i, value).exc = NoExc
                       /\ AllRead(SetExpiration(Here, i, value), t, value)

\* C5: a root token with two indirect tokens, one unit of time after it
\* started; the duration set through the one moves the expiration, which
\* the root and the other read
C5_Witness ==
    \E i \in IndirectTokens :
        LET t == tokens[i].roottoken
            S == SetDuration(Here, i, 2)
        IN /\ ended(tokens, t) = None
           /\ now = 2 /\ tokens[t].started = 1
           /\ Cardinality(IndexOf(t)) = 2
           /\ tokens[t].expiration # 3
           /\ S.exc = NoExc
           /\ \A j \in {t} \cup IndexOf(t) : expiration(S.tokens, j) = 3

\* in store S every resource of rs holds an active indirect token of the
\* token registered on context, which is a root token
CoveredBy(S, context, rs) ==
    LET t == get(S, context)
    IN /\ t # None
       /\ ~IIndirectToken(S.tokens, t)
       /\ \A r \in rs :
             LET i == get(S, r)
             IN /\ i # None
                /\ IIndirectToken(S.tokens, i)
                /\ S.tokens[i].roottoken = t

\* the calls of lock with depth infinity on a collection that a request
\* can make now
InfinityLockCalls ==
    [context : {c \in Folders : CanLock(c, Handles)},
     scope : {"exclusive", "shared"}, timeout : Durations,
     principal_id : Principals, locktoken : FreeHandles(tokens, Handles)]

LockCall(c) ==
    lock(Here, c.context, c.scope, "Owner A", c.timeout, "infinity",
         c.principal_id, c.locktoken)

\* C6: right after a lock with depth infinity on a collection has returned
\* a lock token, every resource that was below the collection, at every
\* level, holds an active indirect token whose roottoken is the token
\* registered on the collection.
C6_InfinityLockCoversDescendants ==
    \A c \in InfinityLockCalls :
        LockCall(c).exc = NoExc =>
            CoveredBy(LockCall(c), c.context, Descendants(parent, c.context))

\* the root tokens that were taken with depth infinity and have not ended
InfinityRoots ==
    {t \in ActiveRoots :
        \E h \in DOMAIN tokens[t].webdav.handles :
            tokens[t].webdav.handles[h].depth = "infinity"}

\* the container modifications that reach the subscriber with a request
\* that is not a browser's and whose If header matches
MatchingMoves ==
    {m \in [object : Resources, newParent : Folders \cup {None}] :
        CanMove(m.object, m.newParent)}

AfterMove(m) ==
    indirectlyLockObjectOnMovedEvent(Here, m.object, parent[m.object],
                                     m.newParent, "PUT", TRUE, TRUE)

\* C7: while a root token taken with depth infinity on a collection is
\* active and every resource below the collection holds an active indirect
\* token of it, a resource-added or resource-moved notification that the
\* subscriber lets pass (also one that adds a folder with children) leaves
\* every resource then below the collection with an active indirect token
\* of that root.
C7_CoverageKept ==
    \A t \in InfinityRoots : \A m \in MatchingMoves :
        LET C == tokens[t].context
            S == AfterMove(m)
            after == [parent EXCEPT ![m.object] = m.newParent]
        IN (/\ CoveredBy(Here, C, Descendants(parent, C))
            /\ S.exc = NoExc)
           => CoveredBy(S, C, Descendants(after, C))

\* C8: when a resource that is not locked is added to or moved into a
\* collection that is locked, with a request that is not a browser's and
\* whose If header matches the collection, the subscriber registers an
\* indirect token for the resource; its roottoken is the collection's token
\* when that is a root token and that token's roottoken when it is an
\* indirect token, and it is in that root token's index.
C8_AddedUnderLockedParent ==
    \A m \in MatchingMoves : \A ifObject \in BOOLEAN :
        LET parentToken == get(Here, m.newParent)
            S == indirectlyLockObjectOnMovedEvent(
                     Here, m.object, parent[m.object], m.newParent,
                     "PUT", ifObject, TRUE)
            i == get(S, m.object)
        IN (/\ m.newParent # None
            /\ get(Here, m.object) = None
            /\ parentToken # None)
           => /\ S.exc = NoExc
              /\ i # None
              /\ IIndirectToken(S.tokens, i)
              /\ ~IIndirectToken(tokens, parentToken)
                    => S.tokens[i].roottoken = parentToken
              /\ IIndirectToken(tokens, parentToken)
                    => S.tokens[i].roottoken = tokens[parentToken].roottoken
              /\ ~IIndirectToken(S.tokens, S.tokens[i].roottoken)
              /\ S.tokens[S.tokens[i].roottoken].index[m.object] = i

\* C8: the file is not contained and not locked, folder 2 is indirectly
\* locked against the lock on collection 1; the file added to folder 2
\* takes an indirect token of the token on collection 1
C8_Witness ==
    LET S == AfterMove([object |-> 3, newParent |-> 2])
    IN /\ parent[3] = None /\ parent[2] = 1
       /\ get(Here, 3) = None
       /\ get(Here, 2) # None /\ get(Here, 1) # None
       /\ IIndirectToken(tokens, get(Here, 2))
       /\ tokens[get(Here, 2)].roottoken = get(Here, 1)
       /\ get(S, 3) # None
       /\ S.tokens[get(S, 3)].roottoken = get(Here, 1)

\* how often principal p is in the list l
Occurrences(l, p) == Cardinality({n \in DOMAIN l : l[n] = p})

\* the lock tokens of token t that principal p was given
HandlesOf(T, t, p) ==
    {h \in DOMAIN T[t].webdav.handles :
        T[t].webdav.handles[h].owner = OwnerOf(p)}

\* the bookkeeping of the shared token t agrees with the token: the
\* principals of the token are those of the list, and each is in the list
\* once for every lock token it was given
Consistent(T, t) ==
    /\ T[t].webdav.has /\ T[t].webdav.haspids
    /\ T[t].principal_ids = ListSet(T[t].webdav.principal_ids)
    /\ \A p \in Principals :
          Occurrences(T[t].webdav.principal_ids, p)
              = Cardinality(HandlesOf(T, t, p))
    /\ \A h \in DOMAIN T[t].webdav.handles :
          \E p \in Principals : h \in HandlesOf(T, t, p)

\* the active shared root tokens whose bookkeeping is consistent, with the
\* resources locked by them
SharedLocks ==
    {x \in [t : ActiveRoots, r : Resources] :
        /\ ISharedLock(tokens, x.t)
        /\ Consistent(tokens, x.t)
        /\ x.r \in LockSet(x.t)}

\* C9: when N distinct principals hold a shared lock, each with one lock
\* token, and one of them unlocks with its lock token, then for N >= 2 the
\* token stays active and registered with exactly the other principals,
\* their list entries and their lock tokens (so that after N-1 of them one
\* principal is left), and for N = 1 the token ends and the resources it
\* locked are unlocked.
C9_SharedLifecycle ==
    \A x \in SharedLocks :
        LET t == x.t
            l == tokens[t].webdav.principal_ids
            N == Cardinality(tokens[t].principal_ids)
        IN (\A p \in Principals : Occurrences(l, p) <= 1) =>
              \A p \in tokens[t].principal_ids :
              \A h \in HandlesOf(tokens, t, p) :
                  LET S == unlock(Here, x.r, h, p)
                  IN /\ S.exc = NoExc
                     /\ N >= 2 =>
                           /\ ended(S.tokens, t) = None
                           /\ get(S, tokens[t].context) = t
                           /\ S.tokens[t].principal_ids
                                 = tokens[t].principal_ids \ {p}
                           /\ Consistent(S.tokens, t)
                           /\ get(S, x.r) = get(Here, x.r)
                     /\ N = 1 =>
                           /\ S.tokens[t].ended # None
                           /\ \A r \in LockSet(t) : get(S, r) = None

\* C9: alice and bob hold a shared lock on the collection; alice unlocks and
\* bob is the one principal left on the active token; bob unlocks and the
\* collection is unlocked
C9_Witness ==
    \E x \in SharedLocks :
        LET t == x.t
            a == CHOOSE h \in Handles : HandlesOf(tokens, t, "alice") = {h}
            b == CHOOSE h \in Handles : HandlesOf(tokens, t, "bob") = {h}
            S1 == unlock(Here, x.r, a, "alice")
            S2 == unlock(S1, x.r, b, "bob")
        IN /\ tokens[t].webdav.principal_ids = <<"alice", "bob">>
           /\ Cardinality(DOMAIN tokens[t].webdav.handles) = 2
           /\ x.r = 1 /\ tokens[t].context = 1
           /\ S1.exc = NoExc
           /\ get(S1, 1) = t /\ S1.tokens[t].principal_ids = {"bob"}
           /\ S2.exc = NoExc
           /\ get(S2, 1) = None

\* C10: when a principal holds k >= 2 lock tokens of a shared lock,
\* unlocking with one of them removes that lock token's data and one
\* occurrence of the principal from the list and nothing else: the token
\* stays active and registered, with the principal; and when the principal
\* is down to one lock token and is the only principal, unlocking ends the
\* token.
C10_SamePrincipalManyHandles ==
    \A x \in SharedLocks : \A p \in tokens[x.t].principal_ids :
    \A h \in HandlesOf(tokens, x.t, p) :
        LET t == x.t
            annots == tokens[t].webdav
            k == Occurrences(annots.principal_ids, p)
            S == unlock(Here, x.r, h, p)
        IN /\ S.exc = NoExc
           /\ k >= 2 =>
                 /\ S.tokens[t].webdav.handles = DictDel(annots.handles, h)
                 /\ S.tokens[t].webdav.principal_ids
                       = ListRemove(annots.principal_ids, p)
                 /\ Occurrences(S.tokens[t].webdav.principal_ids, p) = k - 1
                 /\ S.tokens[t].principal_ids = tokens[t].principal_ids
                 /\ ended(S.tokens, t) = None
                 /\ get(S, tokens[t].context) = t
                 /\ S.locks = locks
           /\ (k = 1 /\ tokens[t].principal_ids = {p}) =>
                 /\ S.tokens[t].ended # None
                 /\ get(S, tokens[t].context) = None

\* C10: alice holds two lock tokens of a shared lock on the collection;
\* the first unlock leaves the token with alice and the other lock token,
\* the second ends it
C10_Witness ==
    \E x \in SharedLocks :
        LET t == x.t
            S1 == unlock(Here, 1, 1, "alice")
            S2 == unlock(S1, 1, 2, "alice")
        IN /\ tokens[t].context = 1
           /\ tokens[t].webdav.principal_ids = <<"alice", "alice">>
           /\ DOMAIN tokens[t].webdav.handles = {1, 2}
           /\ S1.exc = NoExc
           /\ get(S1, 1) = t
           /\ DOMAIN S1.tokens[t].webdav.handles = {2}
           /\ S1.tokens[t].webdav.principal_ids = <<"alice">>
           /\ S2.exc = NoExc
           /\ S2.tokens[t].ended # None
           /\ get(S2, 1) = None

\* the calls of lock with scope shared that a request can make now on a
\* resource that holds an active shared root token
SharedJoinCalls ==
    [context : {c \in Resources : /\ CanLock(c, Handles)
                                  /\ get(Here, c) # None
                                  /\ ISharedLock(tokens, get(Here, c))},
     depth : Depths, timeout : Durations, principal_id : Principals,
     locktoken : FreeHandles(tokens, Handles)]

JoinCall(c) ==
    lock(Here, c.context, "shared", OwnerOf(c.principal_id), c.timeout,
         c.depth, c.principal_id, c.locktoken)

\* C11: when the resource holds an active shared root token, lock with
\* scope shared and depth 0 or infinity returns a lock token; the principal
\* is then among the token's principals, the token's duration is the
\* duration asked for, and the lock token is recorded with its owner and
\* depth.
C11_SharedJoinSucceeds ==
    \A c \in SharedJoinCalls :
        LET t == get(Here, c.context)
            S == JoinCall(c)
        IN /\ S.exc = NoExc
           /\ c.principal_id \in S.tokens[t].principal_ids
           /\ duration(S.tokens, t) = c.timeout
           /\ c.locktoken \in DOMAIN S.tokens[t].webdav.handles
           /\ S.tokens[t].webdav.handles[c.locktoken]
                 = [owner |-> OwnerOf(c.principal_id), depth |-> c.depth]

\* the resources that hold an active exclusive root token
ExclusivelyLocked ==
    {c \in Resources : /\ get(Here, c) # None
                       /\ IExclusiveLock(tokens, get(Here, c))}

\* C12: when the resource holds an active exclusive root token, lock with
\* scope shared raises AlreadyLocked, whatever the principal, the duration
\* and the depth, and every token (principals, timing, annotations, index)
\* and the utility are as they were.
C12_SharedOnExclusiveRefused ==
    \A context \in ExclusivelyLocked :
    \A depth \in Depths, timeout \in Durations, p \in Principals :
    \A locktoken \in FreeHandles(tokens, Handles) :
        LET S == lock(Here, context, "shared", OwnerOf(p), timeout, depth,
                      p, locktoken)
        IN /\ S.exc = "AlreadyLocked"
           /\ S.tokens = tokens
           /\ S.locks = locks

\* C12: alice holds an exclusive lock of depth infinity on the collection;
\* bob's request for a shared lock on it is refused and nothing changes
C12_Witness ==
    LET t == get(Here, 1)
        S == lock(Here, 1, "shared", "Owner B", 2, "infinity", "bob", 3)
    IN /\ 1 \in ExclusivelyLocked
       /\ tokens[t].principal_ids = {"alice"}
       /\ DOMAIN tokens[t].index = {2, 3}
       /\ S.exc = "AlreadyLocked"
       /\ S.tokens = tokens /\ S.locks = locks

\* C13: lock with a scope that is neither exclusive nor shared raises
\* UnprocessableError on every resource, locked or not, for every depth,
\* duration and principal, and the utility, every token and every
\* annotation are as they were.
C13_UnknownScopeRefused ==
    \A context \in Resources, scope \in Scopes \ {"exclusive", "shared"} :
    \A depth \in Depths, timeout \in Durations, p \in Principals :
    \A locktoken \in FreeHandles(tokens, Handles) :
        LET S == lock(Here, context, scope, OwnerOf(p), timeout, depth,
                      p, locktoken)
        IN /\ S.exc = "UnprocessableError"
           /\ S.tokens = tokens
           /\ S.locks = locks

\* C13: the collection is not locked and the file below it is; a request
\* with scope notexclusive and depth infinity on the collection is refused
\* as unprocessable and nothing changes
C13_Witness ==
    LET S == lock(Here, 1, "notexclusive", "Owner A", 1, "infinity", "alice", 3)
    IN /\ get(Here, 1) = None
       /\ get(Here, 3) # None
       /\ 3 \in Descendants(parent, 1)
       /\ S.exc = "UnprocessableError"
       /\ S.tokens = tokens /\ S.locks = locks

\* the resources that hold an active token, of any kind, and for which a
\* new token object can be made
Locked ==
    {c \in Resources : get(Here, c) # None /\ FreeSlots(tokens, c) # {}}

\* C14: when the resource holds an active token (an exclusive or shared
\* root token, or an indirect token), lock with scope exclusive raises
\* AlreadyLocked for every depth, duration and principal; the utility's
\* entries, every token there was (with its annotations and its index) and
\* the set of tokens that are referred to are as they were.
C14_ExclusiveOnLockedRefused ==
    \A context \in Locked :
    \A depth \in Depths, timeout \in Durations, p \in Principals :
    \A locktoken \in FreeHandles(tokens, Handles) :
        LET S == lock(Here, context, "exclusive", OwnerOf(p), timeout, depth,
                      p, locktoken)
        IN /\ S.exc = "AlreadyLocked"
           /\ S.locks = locks
           /\ \A t \in Live(tokens) : S.tokens[t] = tokens[t]
           /\ Collect(S).tokens = tokens

\* C14: folder 2 holds an indirect token of the exclusive lock of depth
\* infinity on collection 1; bob's request for an exclusive lock of depth
\* infinity on folder 2 is refused and nothing changes
C14_Witness ==
    LET i == get(Here, 2)
        S == lock(Here, 2, "exclusive", "Owner B", 2, "infinity", "bob", 3)
    IN /\ 2 \in Locked
       /\ IIndirectToken(tokens, i)
       /\ tokens[i].roottoken = get(Here, 1)
       /\ 1 \in ExclusivelyLocked
       /\ parent[3] = 2 /\ get(Here, 3) # None
       /\ S.exc = "AlreadyLocked"
       /\ S.locks = locks
       /\ Collect(S).tokens = tokens

\* the lock tokens recorded on the root token that locks the resource
LockTokensOn(S, context) ==
    IF get(S, context) = None THEN {}
    ELSE DOMAIN S.tokens[Root(S.tokens, get(S, context))].webdav.handles

\* C15: when unlock with a lock token of the lock on a resource has
\* returned, a second unlock on the resource with the same lock token, by
\* the same principal, raises ConflictError -- for an exclusive lock and
\* for a shared lock, other lock tokens of the shared lock being
\* outstanding or not.
C15_SecondUnlockConflicts ==
    \A context \in Resources, p \in Principals :
    \A locktoken \in LockTokensOn(Here, context) :
        LET S1 == unlock(Here, context, locktoken, p)
            S2 == unlock(S1, context, locktoken, p)
        IN S1.exc = NoExc => S2.exc = "ConflictError"

\* the resources below context, at any level, that hold an active token of
\* a lock other than the lock on context
IndependentlyLockedBelow(context) ==
    {d \in Descendants(parent, context) :
        /\ get(Here, d) # None
        /\ get(Here, context) # None =>
              Root(tokens, get(Here, d)) # Root(tokens, get(Here, context))}

\* C16: when some resource below a collection, at any level, holds an
\* active token of an independent lock, lock with depth infinity on the
\* collection raises AlreadyLocked, for scope exclusive and for scope
\* shared.
C16_InfinityLockRefusedOnLockedDescendant ==
    \A c \in InfinityLockCalls :
        IndependentlyLockedBelow(c.context) # {}
            => LockCall(c).exc = "AlreadyLocked"

\* the order in which maybeRecursivelyLockIndirectly goes through the
\* resources below a collection: each member, then what is below it
RECURSIVE Walk(_)
Walk(subobs) ==
    IF subobs = <<>> THEN <<>>
    ELSE <<Head(subobs)>> \o Walk(values(Head(subobs))) \o Walk(Tail(subobs))

\* the resources below context that the descent reaches before it comes to
\* one that holds an active token
VisitedBeforeConflict(context) ==
    LET walk == Walk(values(context))
    IN {walk[n] : n \in {m \in DOMAIN walk :
                            \A k \in 1..m : get(Here, walk[k]) = None}}

\* C17: when lock with depth infinity on a collection that holds no active
\* token raises AlreadyLocked because a resource below it is locked, the
\* root token it made is registered on the collection and active, carries
\* the lock token, and the resources the descent reached before the locked
\* one hold active indirect tokens of it, which are in its index; all of
\* this stays when the call has ended.
C17_FailedInfinityLockNotRolledBack ==
    \A c \in InfinityLockCalls :
        LET S == LockCall(c)
            t == get(S, c.context)
        IN (get(Here, c.context) = None /\ S.exc = "AlreadyLocked") =>
              /\ t # None
              /\ t \notin Live(tokens)
              /\ S.tokens[t].kind = c.scope
              /\ c.locktoken \in DOMAIN S.tokens[t].webdav.handles
              /\ DOMAIN S.tokens[t].index = VisitedBeforeConflict(c.context)
              /\ \A r \in VisitedBeforeConflict(c.context) :
                    /\ get(S, r) = S.tokens[t].index[r]
                    /\ IIndirectToken(S.tokens, get(S, r))
                    /\ S.tokens[get(S, r)].roottoken = t
              /\ \A u \in {t} \cup {get(S, r) : r \in VisitedBeforeConflict(c.context)} :
                    Collect(S).tokens[u] = S.tokens[u]

\* C17: the file below the folder below the collection is locked and the
\* other two are not; an exclusive lock of depth infinity on the collection
\* raises AlreadyLocked, and the collection is then locked by the new root
\* token and the folder by an indirect token of it
C17_Witness ==
    LET S == lock(Here, 1, "exclusive", "Owner A", 1, "infinity", "alice", 2)
    IN /\ parent[2] = 1 /\ parent[3] = 2
       /\ get(Here, 1) = None /\ get(Here, 2) = None /\ get(Here, 3) # None
       /\ CanLock(1, Handles)
       /\ VisitedBeforeConflict(1) = {2}
       /\ S.exc = "AlreadyLocked"
       /\ get(S, 1) # None /\ IExclusiveLock(S.tokens, get(S, 1))
       /\ get(S, 2) # None /\ S.tokens[get(S, 2)].roottoken = get(S, 1)
       /\ get(S, 3) = get(Here, 3)

\* the tokens that were registered with the token utility
Registered == {t \in Live(tokens) : tokens[t].utility}

\* the token's root token was not ended by end() and its expiration is at
\* or before the current time
SilentlyExpired(t) ==
    LET r == tokens[Root(tokens, t)]
    IN r.ended = None /\ r.expiration # None /\ r.expiration <= now

\* C18: in every reachable state and for every registered token, root or
\* indirect, utility.get on the token's resource answers with the token
\* exactly when the token's ended is None; and a token whose expiration is
\* at or before the current time, without end() having been called, reads
\* ended = expiration and remaining_duration = 0 and is not what utility.get
\* answers with, as does every indirect token in its index, although the
\* utility's entries and the index are still there.
C18_LookupIffNotEnded ==
    \A t \in Registered :
        /\ (get(Here, tokens[t].context) = t) <=> (ended(tokens, t) = None)
        /\ SilentlyExpired(t) =>
              \A u \in {t} \cup IndexOf(t) :
                  /\ ended(tokens, u) = expiration(tokens, t)
                  /\ remaining_duration(tokens, u) = 0
                  /\ get(Here, tokens[u].context) # u

\* C18: a root token whose expiration has passed while nothing ended it:
\* the utility still has the entries of the token and of its two indirect
\* tokens, the index still has the two, and the three resources read as
\* unlocked
C18_Witness ==
    \E t \in Registered :
        /\ ~IIndirectToken(tokens, t)
        /\ SilentlyExpired(t)
        /\ locks[tokens[t].context] = t
        /\ Cardinality(IndexOf(t)) = 2
        /\ \A i \in IndexOf(t) :
              /\ locks[tokens[i].context] = i
              /\ ended(tokens, i) = tokens[t].expiration
        /\ \A r \in Resources : get(Here, r) = None

\* in store S the three timing setters and end(), called on token u, raise
\* EndedError and leave the store as it is
RefusesTiming(S, u) ==
    /\ \A value \in Durations \cup {None} :
          /\ SetDuration(S, u, value) = Raise(S, "EndedError")
          /\ SetRemainingDuration(S, u, value) = Raise(S, "EndedError")
    /\ \A value \in (1..(MaxTime + 1)) \cup {None} :
          SetExpiration(S, u, value) = Raise(S, "EndedError")
    /\ end(S, u) = Raise(S, "EndedError")

\* in store S add and remove, called on token u, raise the exception e and
\* leave the store as it is
RefusesPrincipals(S, u, e) ==
    \A p \in Principals :
        /\ add(S, u, {p}) = Raise(S, e)
        /\ remove(S, u, {p}) = Raise(S, e)

\* the tokens that have add and remove: shared tokens and indirect tokens
HasAddRemove(u) == ISharedLock(tokens, u) \/ IIndirectToken(tokens, u)

\* the stores in which a token has ended, with the token: the present one
\* for the tokens that have expired, and the one end() leaves for each
\* active root token and the indirect tokens of its index
EndedCases ==
    {[S |-> Here, u |-> u] : u \in {v \in Registered : ended(tokens, v) # None}}
        \cup UNION {{[S |-> end(Here, r), u |-> u] : u \in {r} \cup IndexOf(r)} :
                       r \in ActiveRoots}

\* C19 as stated: on a token that has ended, by end() or by passing its
\* expiration, the timing setters, end(), add and remove raise EndedError
\* and change nothing, on the root token and through an indirect token
\* alike.
C19_EndedTokenRefusesEveryMutation ==
    \A c \in EndedCases :
        /\ ended(c.S.tokens, c.u) # None
        /\ RefusesTiming(c.S, c.u)
        /\ HasAddRemove(c.u) => RefusesPrincipals(c.S, c.u, "EndedError")

\* C19: on a token that has ended, by end() or by passing its expiration,
\* the timing setters and end() raise EndedError and change nothing, on the
\* root token and through an indirect token alike; add and remove raise
\* EndedError and change nothing on a shared token and through an indirect
\* token of a shared token, and through an indirect token of a token that
\* is not shared they raise TypeError.
C19_EndedTokenRefusesMutation ==
    \A c \in EndedCases :
        /\ ended(c.S.tokens, c.u) # None
        /\ RefusesTiming(c.S, c.u)
        /\ ISharedLock(tokens, Root(tokens, c.u))
              => RefusesPrincipals(c.S, c.u, "EndedError")
        /\ (IIndirectToken(tokens, c.u) /\ ~ISharedLock(tokens, Root(tokens, c.u)))
              => RefusesPrincipals(c.S, c.u, "TypeError")

\* C19: a shared token with an indirect token has passed its expiration
\* and nothing ended it, and an active exclusive token with an indirect
\* token is ended by end(); in both cases a duration set through the
\* indirect token raises EndedError and changes nothing, and so does add
\* through the indirect token of the shared token
C19_Witness ==
    \E c, x \in EndedCases :
        /\ c.S = Here /\ SilentlyExpired(c.u)
        /\ IIndirectToken(tokens, c.u) /\ ISharedLock(tokens, Root(tokens, c.u))
        /\ SetDuration(c.S, c.u, 2) = Raise(Here, "EndedError")
        /\ add(c.S, c.u, {"bob"}) = Raise(Here, "EndedError")
        /\ x.S # Here /\ x.S.tokens[Root(tokens, x.u)].ended = now
        /\ IIndirectToken(tokens, x.u) /\ IExclusiveLock(tokens, Root(tokens, x.u))
        /\ SetDuration(x.S, x.u, 2) = Raise(x.S, "EndedError")
        /\ end(x.S, x.u) = Raise(x.S, "EndedError")

\* C20: refreshlock(d) on a resource that holds an active token, at
\* whatever time after the lock was taken, returns and leaves the
\* expiration of the root token at now + d, so that the remaining duration
\* read through the resource's token, root or indirect, is d.
C20_RefreshCountsFromNow ==
    \A context \in Resources, d \in Durations :
        LET token == get(Here, context)
            S == refreshlock(Here, context, d)
        IN token # None =>
              /\ S.exc = NoExc
              /\ S.tokens[Root(tokens, token)].expiration = now + d
              /\ remaining_duration(S.tokens, token) = d

\* the active root tokens all of whose lock tokens were taken with depth 0
DepthZeroRoots ==
    {t \in ActiveRoots :
        /\ DOMAIN tokens[t].webdav.handles # {}
        /\ \A h \in DOMAIN tokens[t].webdav.handles :
              tokens[t].webdav.handles[h].depth = "0"}

\* C21: in every reachable state, a root token whose locks were all taken
\* with depth 0 has no indirect token: its index is empty and no resource
\* other than its own holds a token of it, whatever was added under the
\* resource after the lock.
C21_DepthZeroLockStaysOnTarget ==
    \A t \in DepthZeroRoots :
        /\ DOMAIN tokens[t].index = {}
        /\ \A r \in Resources \ {tokens[t].context} :
              locks[r] # None => Root(tokens, locks[r]) # t

(***************************************************************************)
(* The active lock descriptor (properties.DAVActiveLock)                   *)
(***************************************************************************)

\* one step of the clock is half a day; datetime.timedelta keeps days and
\* seconds apart, and timedelta.seconds is the part below one day
TickSeconds == 43200
DaySeconds == 86400
timedeltaSeconds(d) == (d * TickSeconds) % DaySeconds

\* tests.DemoAbsoluteURL: one "/dummy" for the object and one for each of its
\* ancestors, and a trailing "/" for a folder
absoluteURL(par, ob) ==
    [dummy |-> 1 + Cardinality(Ancestors(par, ob)), slash |-> ob \in Folders]

\* token.remaining_duration is None (the model reads None and a zero
\* timedelta both as 0, so the test is made on the fields it is computed from)
remainingIsNone(T, t) ==
    LET r == T[Root(T, t)]
    IN IF r.started = None THEN r.duration = None
       ELSE ended(T, t) = None /\ r.expiration = None

\* DAVActiveLock.__init__: token.annotations.get(WEBDAV_LOCK_KEY, {})
\*                              .get(locktoken, {})
HasTokendata(T, locktoken, t) ==
    /\ annotations(T, t).webdav.has
    /\ locktoken \in DOMAIN annotations(T, t).webdav.handles

\* the mutant names the resource of the token it was given as the lock root
DAVActiveLockOfOwnContext(T, par, locktoken, t) ==
    [lockscope |-> IF T[Root(T, t)].kind = "exclusive" THEN <<"exclusive">>
                   ELSE IF T[Root(T, t)].kind = "shared" THEN <<"shared">>
                   ELSE <<>>,
     locktype  |-> <<"write">>,
     depth     |-> IF HasTokendata(T, locktoken, t)
                   THEN annotations(T, t).webdav.handles[locktoken].depth
                   ELSE "0",
     owner     |-> IF HasTokendata(T, locktoken, t)
                   THEN annotations(T, t).webdav.handles[locktoken].owner
                   ELSE "None",
     timeout   |-> IF remainingIsNone(T, t) THEN <<>>
                   ELSE <<"Second", timedeltaSeconds(remaining_duration(T, t))>>,
     locktoken |-> IF locktoken = None THEN <<>> ELSE <<locktoken>>,
     lockroot  |-> absoluteURL(par, T[t].context)]

\* the properties of DAVActiveLock(locktoken, token, context, request); an
\* absent owner and an absent timeout (None) read "None" and <<>>
DAVActiveLock(T, par, locktoken, t) ==
    [lockscope |-> IF T[Root(T, t)].kind = "exclusive" THEN <<"exclusive">>
                   ELSE IF T[Root(T, t)].kind = "shared" THEN <<"shared">>
                   ELSE <<>>,
     locktype  |-> <<"write">>,
     depth     |-> IF HasTokendata(T, locktoken, t)
                   THEN annotations(T, t).webdav.handles[locktoken].depth
                   ELSE "0",
     owner     |-> IF HasTokendata(T, locktoken, t)
                   THEN annotations(T, t).webdav.handles[locktoken].owner
                   ELSE "None",
     timeout   |-> IF remainingIsNone(T, t) THEN <<>>
                   ELSE <<"Second", timedeltaSeconds(remaining_duration(T, t))>>,
     locktoken |-> IF locktoken = None THEN <<>> ELSE <<locktoken>>,
     lockroot  |-> absoluteURL(par, T[Root(T, t)].context)]

\* DAVLockmanager.getActivelock
getActivelock(S, par, context, locktoken) ==
    IF islocked(S, context)
    THEN DAVActiveLock(S.tokens, par, locktoken, get(S, context))
    ELSE None

\* C22: for every registered indirect token and every lock token, the active
\* lock descriptor built from the indirect token is the one built from its
\* root token: the scope is the root token's kind, the lock root is the URL
\* of the root token's resource, owner and depth are those recorded for the
\* lock token in the root's annotation, and the timeout is computed from the
\* root's expiration; while the token has not ended, getActivelock on the
\* indirectly locked resource gives the descriptor getActivelock gives on
\* the root's resource.
C22_IndirectDescriptorIsRootDescriptor ==
    \A i \in IndirectTokens : \A h \in Handles :
        LET t == Root(tokens, i)
            d == DAVActiveLock(tokens, parent, h, i)
        IN /\ d = DAVActiveLock(tokens, parent, h, t)
           /\ d.lockscope = <<tokens[t].kind>>
           /\ d.lockroot = absoluteURL(parent, tokens[t].context)
           /\ h \in DOMAIN tokens[t].webdav.handles =>
                 /\ d.owner = tokens[t].webdav.handles[h].owner
                 /\ d.depth = tokens[t].webdav.handles[h].depth
           /\ d.timeout =
                 IF tokens[t].expiration <= now THEN <<"Second", 0>>
                 ELSE <<"Second",
                        timedeltaSeconds(tokens[t].expiration - now)>>
           /\ ended(tokens, i) = None =>
                 getActivelock(Here, parent, tokens[i].context, h) =
                     getActivelock(Here, parent, tokens[t].context, h)

\* an active indirect token under a root locked with depth infinity, whose
\* resource has another URL than the root's resource
C22_Witness ==
    \E i \in IndirectTokens : \E h \in Handles :
        /\ ended(tokens, i) = None
        /\ h \in DOMAIN tokens[Root(tokens, i)].webdav.handles
        /\ getActivelock(Here, parent, tokens[i].context, h).depth = "infinity"
        /\ getActivelock(Here, parent, tokens[i].context, h).lockroot
               # absoluteURL(parent, tokens[i].context)
        /\ getActivelock(Here, parent, tokens[i].context, h).timeout
               = <<"Second", TickSeconds>>

\* the stores in which a token has ended, with the token: EndedCases, and
\* the store the removal of its last principals leaves for each active
\* shared token and the indirect tokens of its index
EndedOrVacatedCases ==
    EndedCases \cup
    UNION {{[S |-> remove(Here, r, tokens[r].principal_ids), u |-> u] :
               u \in {r} \cup IndexOf(r)} :
              r \in {v \in ActiveRoots : ISharedLock(tokens, v)}}

\* the stores one more operation leaves: the timing setters, end, add and
\* remove on token v, and lock, refreshlock and unlock on its resource
OperationsOn(S, v) ==
    {SetDuration(S, v, value) : value \in Durations \cup {None}}
        \cup {SetRemainingDuration(S, v, value) : value \in Durations \cup {None}}
        \cup {SetExpiration(S, v, value) : value \in (1..(MaxTime + 1)) \cup {None}}
        \cup {end(S, v)}
        \cup (IF HasAddRemove(v)
              THEN {add(S, v, {p}) : p \in Principals}
                       \cup {remove(S, v, {p}) : p \in Principals}
              ELSE {})
        \cup (IF CanLock(tokens[v].context, Handles)
              THEN {lock(S, tokens[v].context, scope, "Owner A", timeout, depth,
                         "alice", h) :
                       scope \in {"exclusive", "shared"}, timeout \in Durations,
                       depth \in Depths, h \in FreeHandles(tokens, Handles)}
              ELSE {})
        \cup {refreshlock(S, tokens[v].context, timeout) : timeout \in Durations}
        \cup {unlock(S, tokens[v].context, h, "alice") : h \in Handles}

\* a token that has ended stays ended after one more operation on it or on
\* its root token, and no lookup answers with it
EndedStaysEnded ==
    \A c \in EndedOrVacatedCases :
        /\ ended(c.S.tokens, c.u) # None
        /\ \A v \in {c.u, Root(tokens, c.u)} : \A L \in OperationsOn(c.S, v) :
              /\ ended(L.tokens, c.u) # None
              /\ \A obj \in Resources : get(L, obj) # c.u

\* a step from a state in which token t has ended leaves it ended, or the
\* token object is gone; no lookup answers with it in the new state
EndedStep ==
    \A t \in Live(tokens) :
        ended(tokens, t) # None =>
            \/ tokens'[t] = NoToken
            \/ /\ ended(tokens, t)' # None
               /\ \A obj \in Resources : get(Here, obj)' # t

\* C23: ended is terminal.  Once ended reads non-None for a token (after
\* end(), after the removal of its last principals, or because the clock
\* passed its expiration), it reads non-None after every further operation
\* and in every later state in which the token exists, and utility.get never
\* answers with the token again.
C23_EndedIsTerminal == []EndedStaysEnded /\ [][EndedStep]_vars

\* C23: an indirect token is still registered after the clock passed the
\* expiration of its root token, and lookup does not answer with it; another token was ended by end(), and a remaining_duration
\* set on it afterwards raises EndedError and leaves it ended
C23_Witness ==
    /\ \E t \in Registered :
          /\ SilentlyExpired(t) /\ IIndirectToken(tokens, t)
          /\ locks[tokens[t].context] = t /\ get(Here, tokens[t].context) = None
    /\ \E c \in EndedOrVacatedCases :
          /\ c.S # Here
          /\ c.S.tokens[Root(tokens, c.u)].ended = now
          /\ SetRemainingDuration(c.S, c.u, 2) = Raise(c.S, "EndedError")
          /\ SetRemainingDuration(c.S, c.u, 2) \in OperationsOn(c.S, c.u)

\* C24: no chains.  In every state reached through lock and the moved
\* event handler, the roottoken of every registered indirect token is a root
\* token (not an indirect token), and its resource is another resource than
\* the indirect token's own.
C24_NoChains ==
    \A i \in IndirectTokens :
        tokens[i].utility =>
            /\ tokens[i].roottoken \in Live(tokens)
            /\ ~IIndirectToken(tokens, tokens[i].roottoken)
            /\ tokens[tokens[i].roottoken].context # tokens[i].context

\* C24: under a root token taken with depth 0, which gets indirect tokens
\* from the handler only, the handler has registered an indirect token for a
\* resource added under a resource that is itself indirectly locked, against
\* the root token
C24_Witness ==
    \E i, j \in IndirectTokens :
        /\ i # j /\ ended(tokens, i) = None
        /\ get(Here, tokens[i].context) = i /\ get(Here, tokens[j].context) = j
        /\ parent[tokens[i].context] = tokens[j].context
        /\ tokens[i].roottoken = tokens[j].roottoken
        /\ tokens[tokens[i].roottoken].webdav.handles[1].depth = "0"

\* C25: duration and expiration are two readings of one value.  For every
\* registered token, root or indirect, expiration = started + duration, and
\* a token without expiration has no duration; on a token that
\* has not ended, after expiration is set to e the duration reads
\* e - started, and after duration is set to d the expiration reads
\* started + d, however much time has passed since the token started.
C25_DurationExpirationDuality ==
    \A t \in Registered :
        /\ expiration(tokens, t) = None => duration(tokens, t) = None
        /\ expiration(tokens, t) # None =>
              expiration(tokens, t) = started(tokens, t) + duration(tokens, t)
        /\ ended(tokens, t) = None =>
              /\ \A e \in 1..(MaxTime + 2) :
                    LET S == SetExpiration(Here, t, e)
                    IN /\ S.exc = NoExc
                       /\ expiration(S.tokens, t) = e
                       /\ duration(S.tokens, t) = e - started(tokens, t)
                       /\ started(S.tokens, t) = started(tokens, t)
              /\ \A d \in Durations :
                    LET S == SetDuration(Here, t, d)
                    IN /\ S.exc = NoExc
                       /\ duration(S.tokens, t) = d
                       /\ expiration(S.tokens, t) = started(tokens, t) + d
                       /\ started(S.tokens, t) = started(tokens, t)

\* C25: one unit of time after a root token started, a duration of 2 set
\* through its indirect token gives the expiration started + 2, not now + 2,
\* and an expiration of 2 gives the duration 1
C25_Witness ==
    \E i \in IndirectTokens :
        /\ ended(tokens, i) = None /\ tokens[i].utility
        /\ started(tokens, i) = 1 /\ now = 2
        /\ expiration(SetDuration(Here, i, 2).tokens, i) = 3
        /\ duration(SetExpiration(Here, i, 2).tokens, tokens[i].roottoken) = 1

\* what remaining_duration is to read for a token whose root token expires
\* at e
Remaining(e) == IF e > now THEN e - now ELSE 0

\* for every registered token with an expiration, root or indirect,
\* remaining_duration reads expiration - now while that is positive and 0
\* from then on, also right after the expiration was set to a time that has
\* passed
RemainingIsClamped ==
    \A t \in Registered :
        /\ expiration(tokens, t) # None =>
              /\ remaining_duration(tokens, t) = Remaining(expiration(tokens, t))
              /\ remaining_duration(tokens, t) >= 0
        /\ ended(tokens, t) = None =>
              \A e \in 1..(MaxTime + 1) :
                 \A j \in {Root(tokens, t)} \cup IndexOf(Root(tokens, t)) :
                    /\ remaining_duration(SetExpiration(Here, t, e).tokens, j)
                          = Remaining(e)
                    /\ remaining_duration(SetExpiration(Here, t, e).tokens, j)
                          >= 0

\* a step that leaves the expiration of the root token of t as it is does
\* not make the remaining_duration of t larger
RemainingStep ==
    \A t \in Registered :
        (/\ tokens'[t] = tokens[t]
         /\ expiration(tokens, t) # None
         /\ expiration(tokens, t)' = expiration(tokens, t))
            => remaining_duration(tokens, t)' <= remaining_duration(tokens, t)

\* C26: remaining_duration, read through a root token or an indirect token,
\* is expiration - now while that is positive and 0 once now >= expiration,
\* never negative; as long as nothing writes duration, expiration or
\* remaining_duration it does not increase while the clock advances.
C26_RemainingDuration == []RemainingIsClamped /\ [][RemainingStep]_vars

\* C26: an indirect token reads a positive remaining duration, the root's
\* expiration minus now; an expiration in the past set through it makes it
\* read 0; and another token's expiration has been reached, and it reads 0
C26_Witness ==
    /\ \E i \in IndirectTokens :
          /\ tokens[i].utility /\ ended(tokens, i) = None
          /\ expiration(tokens, i) = 3 /\ now = 2
          /\ remaining_duration(tokens, i) = 1
          /\ remaining_duration(SetExpiration(Here, i, 1).tokens, i) = 0
    /\ \E t \in Registered :
          /\ SilentlyExpired(t) /\ expiration(tokens, t) = now
          /\ remaining_duration(tokens, t) = 0

\* C27: through an active indirect token whose root token is not a shared
\* lock, add and remove raise TypeError and change nothing, the root's
\* principals included.  When the root token is shared, add and remove do
\* what they do on the root token: the principals are added to or removed
\* from the root's set, and removing all of the root's principals through
\* the indirect token ends the root token, after which neither the root's
\* resource nor the indirect token's resource, nor any other resource of the
\* index, is looked up as locked.
C27_AddRemoveThroughIndirect ==
    \A i \in {j \in IndirectTokens : tokens[j].utility /\ ended(tokens, j) = None} :
        LET t == tokens[i].roottoken
            pids == tokens[t].principal_ids
        IN /\ ~ISharedLock(tokens, t) =>
                 \A ps \in (SUBSET Principals) \ {{}} :
                    /\ add(Here, i, ps) = Raise(Here, "TypeError")
                    /\ remove(Here, i, ps) = Raise(Here, "TypeError")
                    /\ add(Here, i, ps).tokens[t].principal_ids = pids
                    /\ remove(Here, i, ps).tokens[t].principal_ids = pids
           /\ ISharedLock(tokens, t) =>
                 \A ps \in (SUBSET Principals) \ {{}} :
                    LET A == add(Here, i, ps)
                        R == remove(Here, i, ps)
                    IN /\ A = RootAdd(Here, t, ps) /\ A.exc = NoExc
                       /\ A.tokens[t].principal_ids = pids \cup ps
                       /\ principal_ids(A.tokens, i) = pids \cup ps
                       /\ R = RootRemove(Here, t, ps) /\ R.exc = NoExc
                       /\ R.tokens[t].principal_ids = pids \ ps
                       /\ pids \ ps # {} =>
                             /\ ended(R.tokens, t) = None
                             /\ get(R, tokens[i].context) = i
                       /\ pids \ ps = {} =>
                             /\ ended(R.tokens, t) # None
                             /\ \A j \in {t} \cup IndexOf(t) :
                                   /\ get(R, tokens[j].context) = None
                                   /\ R.locks[tokens[j].context] = None

\* C27: a shared token of two principals with an indirect token: removing
\* one principal through the indirect token leaves the lock, removing both
\* unlocks the root's resource and the indirect token's
C27_Witness ==
    \E i \in IndirectTokens :
        LET t == tokens[i].roottoken
        IN /\ tokens[i].utility /\ ended(tokens, i) = None
           /\ ISharedLock(tokens, t)
           /\ tokens[t].principal_ids = {"alice", "bob"}
           /\ get(remove(Here, i, {"alice"}), tokens[t].context) = t
           /\ remove(Here, i, {"alice"}).tokens[t].principal_ids = {"bob"}
           /\ remove(Here, i, {"alice", "bob"}).locks[tokens[t].context] = None
           /\ remove(Here, i, {"alice", "bob"}).locks[tokens[i].context] = None

\* C28: no call of DAVLockmanager.lock and no run of the moved event handler
\* ends with RegistrationError.  When the utility refuses the new root token
\* with RegistrationError because the resource holds an active token, lock
\* raises AlreadyLocked; the handler ends normally or with AlreadyLocked;
\* and a lock request that another request has overtaken between
\* utility.get and utility.register of an indirect token for a member, so
\* that the utility refuses the indirect token, ends with AlreadyLocked.
C28_NoRegistrationErrorEscapes ==
    /\ \A context \in {c \in Resources : CanLock(c, Handles)} :
       \A scope \in Scopes, depth \in Depths, p \in Principals,
          h \in FreeHandles(tokens, Handles) :
          LET S == lock(Here, context, scope, OwnerOf(p), 1, depth, p, h)
          IN /\ S.exc # "RegistrationError"
             /\ (scope = "exclusive"
                   /\ register(New(Here, RootToken("exclusive", context,
                                                   {p}, 1)),
                               Alloc(Here, context)).exc = "RegistrationError")
                   => S.exc = "AlreadyLocked"
    /\ \A m \in MatchingMoves : \A request \in Requests :
          indirectlyLockObjectOnMovedEvent(
              Here, m.object, parent[m.object], m.newParent,
              request.method, request.ifObject, request.ifParent).exc
                  # "RegistrationError"
    /\ (pending # NoPending /\ \A r \in Resources : FreeSlots(tokens, r) # {})
          => LET S == registerAfterLookup(Here, pending.roottoken,
                                          pending.subobs)
             IN /\ S.exc # "RegistrationError"
                /\ locks[Head(pending.subobs)] # None => S.exc = "AlreadyLocked"

\* the resources of root token t: its own and those of its index
ResourcesOf(t) == {tokens[t].context} \cup DOMAIN tokens[t].index

\* store S differs from store S0 only in the entries of the resources rs
\* and in the tokens of root token t
SameOutside(S0, S, t, rs) ==
    /\ \A r \in Resources \ rs : S.locks[r] = S0.locks[r]
    /\ \A v \in Live(S0.tokens) :
          Root(S0.tokens, v) # t => S.tokens[v] = S0.tokens[v]

\* the lock requests that reach no resource of root token t
FreshLockCalls(t) ==
    {c \in [context : {r \in Resources : CanLock(r, Handles)},
            scope : {"exclusive", "shared"}, depth : Depths,
            locktoken : FreeHandles(tokens, Handles)] :
        /\ c.context \notin ResourcesOf(t)
        /\ c.depth = "infinity" =>
              Descendants(parent, c.context) \cap ResourcesOf(t) = {}}

\* ending root token t in one piece changes the entries of t's resources
\* and t's tokens only: the first part of end() and the whole of it
EndingInOnePieceIsFramed ==
    \A t \in ActiveRoots : \A u \in {t} \cup IndexOf(t) :
        /\ end(Here, u).exc = NoExc
        /\ SameOutside(Here, EndToken(Here, t), t, {tokens[t].context})
        /\ SameOutside(Here, end(Here, u), t, ResourcesOf(t))
        /\ \A c \in FreshLockCalls(t) :
              LET L == lock(Here, c.context, c.scope, "Owner A", 1, c.depth,
                            "alice", c.locktoken)
                  E == end(Here, u)
              IN L.exc = NoExc =>
                    /\ end(L, u).exc = NoExc
                    /\ SameOutside(L, end(L, u), t, ResourcesOf(t))
                    /\ end(L, u) = lock(E, c.context, c.scope, "Owner A", 1,
                                        c.depth, "alice", c.locktoken)

\* the round of the loop a stopped call of end() is at changes the entry of
\* the item's resource and the ending root's tokens only, whatever lock
\* requests have run since the call stopped; it takes the item's token out
\* of the utility, or it raises RegistrationError and changes nothing when
\* such a request has locked the item's resource
NextRoundIsFramed ==
    ending # NoEnding =>
        LET item == ending.items[ending.at]
            S == removeItemAt(Here, ending)
        IN /\ item.key_ref \in DOMAIN tokens[ending.roottoken].index
           /\ SameOutside(Here, S, ending.roottoken, {item.key_ref})
           /\ S.exc \in {NoExc, "RegistrationError"}
           /\ S.exc = "RegistrationError" =>
                 /\ S = Raise(Here, "RegistrationError")
                 /\ get(Here, item.key_ref) \notin {None, item.token}
           /\ S.exc = NoExc => get(S, item.key_ref) = None

\* C29: ending an active root token T, directly or through one of its
\* indirect tokens, changes the utility's entries of T's resource and of the
\* resources in T's index only: the entry of every other resource, and every
\* token of another root with its principals, timing, annotation and index,
\* is as before.  So it is for every part of end() when lock requests, on
\* resources that are not T's and on T's, run between the parts, between
\* the end of T and the loop of removeEndedTokens and between the rounds:
\* every step in which such a call of end() stops or goes on leaves the
\* entries of all resources but T's as they are, and every token of another
\* root that is still referred to.
C29_EndingIsFramed ==
    /\ [](EndingInOnePieceIsFramed /\ NextRoundIsFramed)
    /\ [][ending' # ending =>
            LET t == IF ending # NoEnding THEN ending.roottoken
                     ELSE ending'.roottoken
            IN /\ \A r \in Resources \ ResourcesOf(t) : locks'[r] = locks[r]
               /\ \A v \in Live(tokens) \cap Live(tokens') :
                     Root(tokens, v) # t => tokens'[v] = tokens[v]]_vars

\* C29: a call of end() on root token T has stopped before a round of the
\* loop of removeEndedTokens; since T ended, a lock request on a resource
\* that is not T's has registered root token o; the round takes its item's
\* token out of the utility and leaves o registered and what it was
C29_Witness ==
    /\ ending # NoEnding
    /\ \E o \in ActiveRoots :
          LET t == ending.roottoken
              item == ending.items[ending.at]
              S == removeItemAt(Here, ending)
          IN /\ tokens[o].started > tokens[t].ended
             /\ tokens[o].context # tokens[t].context
             /\ \A n \in 1..Len(ending.items) :
                   tokens[o].context # ending.items[n].key_ref
             /\ locks[item.key_ref] = item.token
             /\ S.exc = NoExc
             /\ S.locks[item.key_ref] = None
             /\ S.locks[tokens[o].context] = o
             /\ S.tokens[o] = tokens[o]

\* the root tokens still known to the utility whose expiration has passed
\* without end()
ExpiredRoots ==
    {t \in Live(tokens) : ~IIndirectToken(tokens, t) /\ SilentlyExpired(t)}

\* C30: the indirect tokens of a root token that has ended by expiry are
\* where end() leaves them: the root's index is empty, and the utility holds
\* no entry with an indirect token of that root.
C30_ExpiryCascades ==
    \A t \in ExpiredRoots :
        /\ DOMAIN tokens[t].index = {}
        /\ \A r \in Resources :
              (locks[r] # None /\ IIndirectToken(tokens, locks[r]))
                  => Root(tokens, locks[r]) # t

\* C31: when the handler runs, for a request that is not a browser's and
\* whose If header matches the new parent, on an object that holds an active
\* token and whose new parent holds an active token, it raises AlreadyLocked
\* and leaves the utility, every token and every index as they were; so it
\* does when the object's token is an indirect token of the root token the
\* parent is locked by.
C31_LockedObjectUnderLockedParentRefused ==
    \A m \in MatchingMoves : \A ifObject \in BOOLEAN :
        (/\ m.newParent # None
         /\ get(Here, m.object) # None
         /\ get(Here, m.newParent) # None)
        => indirectlyLockObjectOnMovedEvent(
               Here, m.object, parent[m.object], m.newParent,
               "PUT", ifObject, TRUE) = Raise(Here, "AlreadyLocked")

\* C31: the file holds an indirect token of the root token its folder is
\* locked by, and the handler run again for the file in that folder, with
\* the If header matching both, raises AlreadyLocked and changes nothing
C31_Witness ==
    /\ parent[3] = 2
    /\ get(Here, 3) # None /\ get(Here, 2) # None
    /\ IIndirectToken(tokens, get(Here, 3))
    /\ Root(tokens, get(Here, 3)) = Root(tokens, get(Here, 2))
    /\ [object |-> 3, newParent |-> 2] \in MatchingMoves
    /\ AfterMove([object |-> 3, newParent |-> 2]) = Raise(Here, "AlreadyLocked")

\* C32: with a lock request stopped between utility.get and
\* utility.register while another lock request runs, a resource still has at
\* most one token that has not ended and counts itself registered, it is the
\* one the utility holds, and every entry of a root token's index is the
\* utility's token for that resource.
C32_InterleavedLocksKeepUniqueness ==
    /\ \A r \in Resources :
          /\ Cardinality(ActiveTokens(r)) <= 1
          /\ ActiveTokens(r) \subseteq {locks[r]}
    /\ \A t \in ActiveRoots : \A k \in DOMAIN tokens[t].index :
          locks[k] = tokens[t].index[k]

\* C33: for every registered token that has not ended, the timeout of its
\* active lock descriptor is None exactly when the token has no duration
\* (no expiration), and otherwise it is "Second-N" with N the whole remaining
\* duration in seconds, also when the remaining duration is one day or more.
C33_TimeoutIsWholeRemainingSeconds ==
    \A t \in Registered :
        ended(tokens, t) = None =>
            LET activelock == DAVActiveLock(tokens, parent, None, t)
            IN /\ (activelock.timeout = <<>>) = (expiration(tokens, t) = None)
               /\ activelock.timeout # <<>> =>
                     activelock.timeout =
                         <<"Second", remaining_duration(tokens, t) * TickSeconds>>

\* the resources whose entry in the utility is a token that expired without
\* end() having been called, a root token or an indirect token of one
ExpiredLocks ==
    {r \in Resources : locks[r] # None /\ SilentlyExpired(locks[r])}

\* C34: unlock on a resource whose lock expired silently raises
\* ConflictError and changes nothing, whatever the lock token and the
\* principal, as it does on a resource that holds no token; islocked is
\* False for the resource of the expired root token and for every resource
\* whose token in the utility is an indirect token of that root.
C34_ExpiredLockReadsAsUnlocked ==
    /\ \A r \in Resources : \A h \in Handles, p \in Principals :
          (locks[r] = None \/ r \in ExpiredLocks)
              => unlock(Here, r, h, p) = Raise(Here, "ConflictError")
    /\ \A r \in ExpiredLocks : ~islocked(Here, r)

\* C34: the collection at the top holds an expired root token, the file is
\* still in its index and in the utility, and another resource never held a
\* token; unlock raises ConflictError on each
C34_Witness ==
    /\ 1 \in ExpiredLocks /\ 3 \in ExpiredLocks
    /\ ~IIndirectToken(tokens, locks[1])
    /\ 3 \in DOMAIN tokens[locks[1]].index
    /\ unlock(Here, 1, 1, "alice") = Raise(Here, "ConflictError")
    /\ unlock(Here, 3, 1, "alice") = Raise(Here, "ConflictError")

\* C35: whatever lock requests and container events (add, move, remove)
\* have happened, every resource whose token in the utility is an indirect
\* token that has not ended lies below the resource of that token's root
\* token: a resource taken out of a locked collection does not stay locked
\* against the collection's root token.
C35_IndirectlyLockedLiesBelowRoot ==
    \A r \in Resources :
        (get(Here, r) # None /\ IIndirectToken(tokens, get(Here, r)))
            => tokens[Root(tokens, get(Here, r))].context
                   \in Ancestors(parent, r)

\* C36: when unlock on a resource locked by an active shared root token
\* raises -- the lock token is not recorded, or the principal is not in the
\* list -- the lock tokens recorded in the root's annotation, the list of
\* principals and the principals of the token are what they were before
\* the call.
C36_FailedSharedUnlockChangesNothing ==
    \A t \in ActiveRoots : \A r \in LockSet(t) :
    \A h \in Handles, p \in Principals :
        LET S == unlock(Here, r, h, p)
        IN (ISharedLock(tokens, t) /\ S.exc # NoExc) =>
              /\ S.tokens[t].webdav.handles = tokens[t].webdav.handles
              /\ S.tokens[t].webdav.principal_ids
                    = tokens[t].webdav.principal_ids
              /\ S.tokens[t].principal_ids = tokens[t].principal_ids

\* C37: in every state reached by shared lock requests and unlocks, every
\* active shared root token has as many lock tokens recorded in its
\* annotation as there are entries in the list of principals, and the
\* principals in the list are the principals of the token.
C37_SharedBookkeepingAgrees ==
    \A t \in ActiveRoots :
        ISharedLock(tokens, t) =>
            /\ tokens[t].webdav.has /\ tokens[t].webdav.haspids
            /\ Cardinality(DOMAIN tokens[t].webdav.handles)
                  = Len(tokens[t].webdav.principal_ids)
            /\ ListSet(tokens[t].webdav.principal_ids)
                  = tokens[t].principal_ids

\* C38: a lock call that raises leaves no lock token entry and no principal
\* behind: when lock raises, on a resource that holds no active token or on
\* one locked by an active root token, then afterwards no active root token
\* has the lock token of the call recorded in its annotation, and the
\* principals of the tokens that were active are what they were.
C38_FailedLockLeavesNothing ==
    \A context \in Resources : \A scope \in Scopes, depth \in Depths :
    \A p \in Principals : \A locktoken \in FreeHandles(tokens, Handles) :
        LET S == lock(Here, context, scope, OwnerOf(p), 1, depth, p, locktoken)
        IN (CanLock(context, Handles) /\ S.exc # NoExc) =>
              /\ \A r \in Resources :
                    get(S, r) # None =>
                        locktoken \notin LockTokensOn(S, r)
              /\ \A t \in ActiveRoots :
                    S.tokens[t].principal_ids = tokens[t].principal_ids

\* C39: unlock on a resource locked by an active exclusive root token, or
\* by an indirect token of one, with a lock token other than those recorded
\* for the lock leaves the lock as it is: the root token has not ended, and
\* every resource of its lock set still holds the token it held.
C39_ExclusiveUnlockNeedsItsLockToken ==
    \A t \in ActiveRoots : \A r \in LockSet(t) :
    \A h \in Handles \ LockTokensOn(Here, r) : \A p \in Principals :
        LET S == unlock(Here, r, h, p)
        IN IExclusiveLock(tokens, t) =>
              /\ ended(S.tokens, t) = None
              /\ \A k \in LockSet(t) : get(S, k) = get(Here, k)

\* C40: in every state reached by lock, unlock, container events and end(),
\* one after the other, the index of every active root token t maps
\* resource k to token i exactly when i is the active token the utility
\* holds for k and i is an indirect token of t; so the index has as many
\* entries as there are resources indirectly locked against t.
C40_IndexIsTheIndirectLockSet ==
    \A t \in ActiveRoots :
        /\ \A k \in Resources : \A i \in Live(tokens) :
              (k \in DOMAIN tokens[t].index /\ tokens[t].index[k] = i)
                  <=> (/\ get(Here, k) = i
                       /\ IIndirectToken(tokens, i)
                       /\ tokens[i].roottoken = t)
        /\ Cardinality(DOMAIN tokens[t].index)
              = Cardinality(LockSet(t) \ {tokens[t].context})

\* C40: the collection at the top holds an active root token whose index
\* has the folder and the file, each with the token the utility holds for
\* it, while the file was taken out of the folder
C40_Witness ==
    \E t \in ActiveRoots :
        /\ tokens[t].context = 1
        /\ DOMAIN tokens[t].index = {2, 3}
        /\ get(Here, 2) = tokens[t].index[2]
        /\ get(Here, 3) = tokens[t].index[3]
        /\ parent[3] # 2

=============================================================================
